---- MODULE Spec2Model ----
(***************************************************************************)
(* JBAssist: an MCP server exposing Microsoft Graph resources as tools.    *)
(*                                                                         *)
(* Three entry points exist in the sources:                                *)
(*   "full"    src/src/index.ts 1-795     strict credentials, ten tools,   *)
(*                                        clients built by src/src/auth.ts *)
(*   "legacy"  src/src/index.ts 797-1152  strict credentials, four tools,  *)
(*                                        its own initializeGraphClient    *)
(*   "lenient" src/unnamed/part_000       placeholder credentials, three   *)
(*                                        tools, clients built by auth.ts  *)
(*                                                                         *)
(* A JavaScript string is a sequence of one-character strings; a value     *)
(* that may be undefined is a record [def, val].                           *)
(***************************************************************************)
EXTENDS Integers, Sequences, FiniteSets, TLC

VARIABLES
    variant,          \* which entry point this process runs
    env,              \* process.env after dotenv.config()
    pc,               \* "init" | "connecting" | "running" | "exited"
    tenantId,         \* const tenantId of the entry point
    clientId,         \* const clientId
    clientSecret,     \* const clientSecret
    scopes,           \* const scopes (a sequence of strings)
    isUsingRealAuth,  \* const isUsingRealAuth (lenient entry point only)
    graphClient,      \* const graphClient, NoClient until constructed
    graphBetaClient,  \* const graphBetaClient, NoClient until constructed
    tools,            \* names registered with server.tool
    connected,        \* server.connect(transport) has resolved
    exitCode,         \* -1 while the process lives, else the process.exit code
    exitReason,       \* which catch block called process.exit
    caught,           \* the error that catch block caught ("" if none)
    registry,         \* the server.tool registrations, in order
    log,              \* the messages the start-up code passed to logToFile
    logWritable,      \* whether fs.appendFileSync on the log file succeeds now
    logFile,          \* the messages of the start-up code that reached the file
    inv               \* the tool invocations in flight, by slot

vars == <<variant, env, pc, tenantId, clientId, clientSecret, scopes,
          isUsingRealAuth, graphClient, graphBetaClient, tools, connected,
          exitCode, exitReason, caught, registry, log, logWritable, logFile,
          inv>>

startupVars == <<variant, env, pc, tenantId, clientId, clientSecret, scopes,
                 isUsingRealAuth, graphClient, graphBetaClient, tools,
                 connected, exitCode, exitReason, caught, registry, log,
                 logWritable, logFile>>

\* Number of tool invocations the transport may have in flight at once.
MaxInFlight == 1

Slots == 1..MaxInFlight

-----------------------------------------------------------------------------
(* JavaScript values                                                       *)

Undefined == [def |-> FALSE, val |-> <<>>]
Str(s) == [def |-> TRUE, val |-> s]
UndefNum == [def |-> FALSE, val |-> 0]
Num(n) == [def |-> TRUE, val |-> n]

\* JS truthiness of a string-or-undefined value: undefined and "" are falsy.
Truthy(v) == v.def /\ v.val # <<>>

\* a || b
JsOr(a, b) == IF Truthy(a) THEN a ELSE b

\* a && b
JsAnd(a, b) == IF Truthy(a) THEN b ELSE a

\* String.prototype.includes
Includes(s, sub) ==
    \E i \in 1..(Len(s) - Len(sub) + 1) : SubSeq(s, i, i + Len(sub) - 1) = sub

\* String.prototype.split with a one-character separator
RECURSIVE SplitFrom(_, _, _, _)
SplitFrom(s, sep, i, cur) ==
    IF i > Len(s) THEN <<cur>>
    ELSE IF s[i] = sep THEN <<cur>> \o SplitFrom(s, sep, i + 1, <<>>)
    ELSE SplitFrom(s, sep, i + 1, Append(cur, s[i]))

Split(s, sep) == SplitFrom(s, sep, 1, <<>>)

-----------------------------------------------------------------------------
(* String literals of the sources                                          *)

LitDemo == <<"d","e","m","o">>
DemoTenantId == <<"d","e","m","o","-","t","e","n","a","n","t","-","i","d">>
DemoClientId == <<"d","e","m","o","-","c","l","i","e","n","t","-","i","d">>
DemoClientSecret ==
    <<"d","e","m","o","-","c","l","i","e","n","t","-","s","e","c","r","e","t">>
DefaultScopes == <<"U","s","e","r",".","R","e","a","d">>

StandardBaseUrl == "https://graph.microsoft.com/v1.0"
BetaBaseUrl == "https://graph.microsoft.com/beta"

MissingCredentials == "Missing required credentials for authentication"
MissingEnvironment == "Missing required environment variables for authentication"

-----------------------------------------------------------------------------
(* src/src/auth.ts                                                         *)

logToFileUnguarded(message, writable) ==
    [threw |-> ~writable,
     appended |-> IF writable THEN <<message>> ELSE <<>>,
     stderr |-> <<>>]

\* logToFile(message): fs.appendFileSync inside try; its catch block writes to
\* stderr and throws nothing.  [threw, appended, stderr]
logToFile(message, writable) ==
    [threw |-> FALSE,
     appended |-> IF writable THEN <<message>> ELSE <<>>,
     stderr |-> IF writable THEN <<>> ELSE <<"Failed to write to log file:">>]

\* The logToFile calls of one synchronous stretch of code, in order: the
\* stretch ends at the first call that throws.
RECURSIVE LogAll(_, _)
LogAll(messages, writable) ==
    IF messages = <<>> THEN [threw |-> FALSE, appended |-> <<>>]
    ELSE LET first == logToFile(Head(messages), writable)
             rest == LogAll(Tail(messages), writable)
         IN IF first.threw THEN [threw |-> TRUE, appended |-> first.appended]
            ELSE [threw |-> rest.threw, appended |-> first.appended \o rest.appended]

\* Every `new` creates an object of its own; `instance` is its identity, named
\* after the call that evaluates the `new` (each initializer runs once).
NoProvider == [kind |-> "none", instance |-> "", tenantId |-> <<>>,
               clientId |-> <<>>, clientSecret |-> <<>>, scopes |-> <<>>]
NoClient == [built |-> FALSE, baseUrl |-> "", authProvider |-> NoProvider]

\* new MockAuthProvider(): the class has no fields
MockAuthProvider(at) ==
    [kind |-> "MockAuthProvider", instance |-> at, tenantId |-> <<>>,
     clientId |-> <<>>, clientSecret |-> <<>>, scopes |-> <<>>]

\* new CustomAuthProvider(tenantId, clientId, clientSecret, scopes)
CustomAuthProvider(t, c, s, sc, at) ==
    [kind |-> "CustomAuthProvider", instance |-> at, tenantId |-> t,
     clientId |-> c, clientSecret |-> s, scopes |-> sc]

\* new TokenCredentialAuthenticationProvider(new ClientSecretCredential(..), {scopes})
TokenCredentialAuthenticationProvider(t, c, s, sc, at) ==
    [kind |-> "TokenCredentialAuthenticationProvider", instance |-> at,
     tenantId |-> t, clientId |-> c, clientSecret |-> s, scopes |-> sc]

isDemoCredentialsAnyCase(t, c, s) ==
    LET lower(ch) == IF ch = "D" THEN "d" ELSE IF ch = "E" THEN "e"
                     ELSE IF ch = "M" THEN "m" ELSE IF ch = "O" THEN "o" ELSE ch
        low(x) == [k \in 1..Len(x) |-> lower(x[k])]
    IN Includes(low(t), LitDemo) \/ Includes(low(c), LitDemo)
         \/ Includes(low(s), LitDemo)

isDemoCredentials(t, c, s) ==
    Includes(t, LitDemo) \/ Includes(c, LitDemo) \/ Includes(s, LitDemo)

\* The result of a call that may throw: [threw, error, client, logged], where
\* logged are the messages it passed to logToFile, in order; a message is the
\* sequence of the fragments of its template.
Returned(client, logged) ==
    [threw |-> FALSE, error |-> "", client |-> client, logged |-> logged]
Threw(error, logged) ==
    [threw |-> TRUE, error |-> error, client |-> NoClient, logged |-> logged]

initializeGraphClientIgnoresSecret(t, c, s, sc) ==
    IF ~Truthy(t) \/ ~Truthy(c)
    THEN Threw(MissingCredentials,
               << <<"Error initializing MS Graph client: ", MissingCredentials>> >>)
    ELSE Returned([built |-> TRUE, baseUrl |-> StandardBaseUrl,
                   authProvider |-> CustomAuthProvider(t.val, c.val, s.val, sc,
                                                       "initializeGraphClient")],
                  << <<"MS Graph client initialized successfully">> >>)

initializeGraphClient(t, c, s, sc) ==
    IF ~Truthy(t) \/ ~Truthy(c) \/ ~Truthy(s)
    THEN Threw(MissingCredentials,
               << <<"Error initializing MS Graph client: ", MissingCredentials>> >>)
    ELSE LET isDemo == isDemoCredentials(t.val, c.val, s.val)
             authProvider ==
                 IF isDemo THEN MockAuthProvider("initializeGraphClient")
                 ELSE CustomAuthProvider(t.val, c.val, s.val, sc,
                                         "initializeGraphClient")
         IN Returned([built |-> TRUE, baseUrl |-> StandardBaseUrl,
                      authProvider |-> authProvider],
                     (IF isDemo
                      THEN << <<"Using demo credentials - MS Graph functionality will be limited">> >>
                      ELSE <<>>)
                     \o << <<"MS Graph client initialized successfully">> >>)

initializeGraphBetaClientNoBaseUrl(t, c, s, sc) ==
    initializeGraphClient(t, c, s, sc)

initializeGraphBetaClientReusesProvider(t, c, s, sc) ==
    LET g == initializeGraphClient(t, c, s, sc)
    IN [g EXCEPT !.client.baseUrl = IF g.threw THEN @ ELSE BetaBaseUrl]

initializeGraphBetaClient(t, c, s, sc) ==
    IF ~Truthy(t) \/ ~Truthy(c) \/ ~Truthy(s)
    THEN Threw(MissingCredentials,
               << <<"Error initializing MS Graph Beta client: ", MissingCredentials>> >>)
    ELSE LET isDemo == isDemoCredentials(t.val, c.val, s.val)
             authProvider ==
                 IF isDemo THEN MockAuthProvider("initializeGraphBetaClient")
                 ELSE CustomAuthProvider(t.val, c.val, s.val, sc,
                                         "initializeGraphBetaClient")
         IN Returned([built |-> TRUE, baseUrl |-> BetaBaseUrl,
                      authProvider |-> authProvider],
                     (IF isDemo
                      THEN << <<"Using demo credentials - MS Graph Beta functionality will be limited">> >>
                      ELSE <<>>)
                     \o << <<"MS Graph Beta client initialized successfully">> >>)

\* The outcomes of one await authProvider.getAccessToken():
\* [ok, token, error, exchanges, logged], where exchanges counts the calls of
\* credential.getToken and error is what the call rejects with.
MockGetAccessTokenWrongLiteral ==
    {[ok |-> TRUE, token |-> "demo", error |-> "", exchanges |-> 0,
      logged |-> << <<"Using mock authentication provider (demo mode)">> >>]}

MockGetAccessToken ==
    {[ok |-> TRUE, token |-> "demo-token", error |-> "", exchanges |-> 0,
      logged |-> << <<"Using mock authentication provider (demo mode)">> >>]}

\* What credential.getToken(scopes) can reject with
UpstreamErrors == {"AuthError"}

CustomGetAccessTokenRetries ==
    {[ok |-> TRUE, token |-> "access-token", error |-> "", exchanges |-> 1,
      logged |-> <<>>]}
    \cup {[ok |-> FALSE, token |-> "", error |-> e, exchanges |-> 2,
           logged |-> << <<"Error getting access token: ", e>> >>] : e \in UpstreamErrors}

\* credential.getToken(scopes) resolves with a token or rejects; the catch
\* block logs and rethrows.
CustomGetAccessToken ==
    {[ok |-> TRUE, token |-> "access-token", error |-> "", exchanges |-> 1,
      logged |-> <<>>]}
    \cup {[ok |-> FALSE, token |-> "", error |-> e, exchanges |-> 1,
           logged |-> << <<"Error getting access token: ", e>> >>] : e \in UpstreamErrors}

\* The library provider of the legacy entry point calls credential.getToken
\* once and lets its rejection through.
TokenCredentialGetAccessToken ==
    {[ok |-> TRUE, token |-> "access-token", error |-> "", exchanges |-> 1,
      logged |-> <<>>]}
    \cup {[ok |-> FALSE, token |-> "", error |-> e, exchanges |-> 1,
           logged |-> <<>>] : e \in UpstreamErrors}

getAccessToken(provider) ==
    IF provider.kind = "MockAuthProvider" THEN MockGetAccessToken
    ELSE IF provider.kind = "CustomAuthProvider" THEN CustomGetAccessToken
    ELSE TokenCredentialGetAccessToken

-----------------------------------------------------------------------------
(* Entry points: credential resolution                                     *)

\* index.ts 836-866: the legacy entry point's own initializeGraphClient()
legacyInitializeGraphClientUnchecked(e) ==
    LET sc == Split(JsOr(e.SCOPES, Str(DefaultScopes)).val, ",")
    IN Returned([built |-> TRUE, baseUrl |-> StandardBaseUrl,
                 authProvider |-> TokenCredentialAuthenticationProvider(
                     e.TENANT_ID.val, e.CLIENT_ID.val, e.CLIENT_SECRET.val, sc,
                     "initializeGraphClient")],
                << <<"MS Graph client initialized successfully">> >>)

legacyInitializeGraphClient(e) ==
    LET sc == Split(JsOr(e.SCOPES, Str(DefaultScopes)).val, ",")
    IN IF ~Truthy(e.TENANT_ID) \/ ~Truthy(e.CLIENT_ID) \/ ~Truthy(e.CLIENT_SECRET)
       THEN Threw(MissingEnvironment,
                  << <<"Error initializing MS Graph client: ", MissingEnvironment>> >>)
       ELSE Returned([built |-> TRUE, baseUrl |-> StandardBaseUrl,
                      authProvider |-> TokenCredentialAuthenticationProvider(
                          e.TENANT_ID.val, e.CLIENT_ID.val, e.CLIENT_SECRET.val,
                          sc, "initializeGraphClient")],
                     << <<"MS Graph client initialized successfully">> >>)

\* part_000 line 36
isUsingRealAuthAnyOf(e) ==
    JsOr(JsOr(e.TENANT_ID, e.CLIENT_ID), e.CLIENT_SECRET)

IsUsingRealAuth(e) ==
    JsAnd(JsAnd(e.TENANT_ID, e.CLIENT_ID), e.CLIENT_SECRET)

FullTools == {"get-profile", "get-emails", "get-calendar-events", "search-users",
              "get-enhanced-profile", "get-direct-reports", "get-manager",
              "get-presence", "get-teamwork", "advanced-user-search"}
LegacyTools == {"get-profile", "get-emails", "get-calendar-events", "search-users"}
LenientTools == {"get-profile", "get-emails", "check-auth"}

-----------------------------------------------------------------------------
(* Tool input schemas (zod) and their validation by the dispatcher         *)

ArgFields == {"count", "days", "limit", "query", "userId", "department",
              "jobTitle", "skills"}
NumFields == {"count", "days", "limit"}

UndefOf(f) == IF f \in NumFields THEN UndefNum ELSE Undefined

NotDeclared == [type |-> "absent", min |-> 0, max |-> 0, hasDefault |-> FALSE,
                default |-> 0, optional |-> TRUE]
\* z.number().min(lo).max(hi).default(d)
zNumber(lo, hi, d) == [type |-> "number", min |-> lo, max |-> hi,
                       hasDefault |-> TRUE, default |-> d, optional |-> FALSE]
\* z.string().min(n)
zString(n) == [type |-> "string", min |-> n, max |-> 0, hasDefault |-> FALSE,
               default |-> 0, optional |-> FALSE]
\* z.string().optional()
zStringOptional == [type |-> "string", min |-> 0, max |-> 0, hasDefault |-> FALSE,
                    default |-> 0, optional |-> TRUE]

\* The third argument of each server.tool(...) call.
inputSchema(tool) ==
    [f \in ArgFields |->
        CASE tool = "get-emails" /\ f = "count" -> zNumber(1, 50, 10)
          [] tool = "get-calendar-events" /\ f = "days" -> zNumber(1, 30, 7)
          [] tool = "search-users" /\ f = "query" -> zString(3)
          [] tool = "search-users" /\ f = "limit" -> zNumber(1, 20, 5)
          [] tool \in {"get-direct-reports", "get-manager", "get-presence"}
               /\ f = "userId" -> zStringOptional
          [] tool = "advanced-user-search" /\ f = "query" -> zString(3)
          [] tool = "advanced-user-search"
               /\ f \in {"department", "jobTitle", "skills"} -> zStringOptional
          [] tool = "advanced-user-search" /\ f = "limit" -> zNumber(1, 20, 5)
          [] OTHER -> NotDeclared]

\* .min(lo).max(hi) on a number: both bounds are inclusive
numberInRangeMinZero(rule, v) == v.val >= 0 /\ v.val <= rule.max

numberInRange(rule, v) == v.val >= rule.min /\ v.val <= rule.max

\* .min(n) on a string: at least n characters
stringLongEnoughOffByOne(rule, v) == Len(v.val) >= rule.min - 1

stringLongEnough(rule, v) == Len(v.val) >= rule.min

\* Parsing one field: [ok, out]
parseField(f, rule, v) ==
    CASE rule.type = "absent" -> [ok |-> TRUE, out |-> UndefOf(f)]
      [] rule.type = "number" ->
           IF ~v.def
           THEN IF rule.hasDefault THEN [ok |-> TRUE, out |-> Num(rule.default)]
                ELSE [ok |-> rule.optional, out |-> v]
           ELSE [ok |-> numberInRange(rule, v), out |-> v]
      [] rule.type = "string" ->
           IF ~v.def THEN [ok |-> rule.optional, out |-> v]
           ELSE [ok |-> stringLongEnough(rule, v), out |-> v]

\* Parsing the raw arguments of a call against the tool's schema
parseArgs(tool, raw) ==
    LET rules == inputSchema(tool)
    IN [ok |-> \A f \in ArgFields : parseField(f, rules[f], raw[f]).ok,
        args |-> [f \in ArgFields |-> parseField(f, rules[f], raw[f]).out]]

-----------------------------------------------------------------------------
(* Inputs                                                                  *)

TenantValues == {Undefined, Str(<<>>), Str(<<"D","e","m","o","1">>),
                 Str(<<"d","e","m","o","1">>)}
ClientValues == {Undefined, Str(<<>>), Str(<<"a","p","p","-","D","E","M","O">>),
                 Str(<<"m","y","-","d","e","m","o","-","a","p","p">>)}
SecretValues == {Undefined, Str(<<>>), Str(<<"s","3","c","r","e","t">>),
                 Str(<<"d","d","e","m","o">>)}
ScopesValues == {Undefined, Str(<<"A",",","B">>)}

RawCount(tool) == IF tool = "get-emails"
                  THEN {UndefNum, Num(0), Num(1), Num(50), Num(51)}
                  ELSE {UndefNum}
RawDays(tool) == IF tool = "get-calendar-events"
                 THEN {UndefNum, Num(0), Num(1), Num(30), Num(31)}
                 ELSE {UndefNum}
RawLimit(tool) == IF tool \in {"search-users", "advanced-user-search"}
                  THEN {UndefNum, Num(0), Num(1), Num(20), Num(21)}
                  ELSE {UndefNum}
RawQuery(tool) == IF tool \in {"search-users", "advanced-user-search"}
                  THEN {Undefined, Str(<<"a","b">>), Str(<<"a","b","c">>)}
                  ELSE {Undefined}
RawUserId(tool) == IF tool \in {"get-direct-reports", "get-manager", "get-presence"}
                   THEN {Undefined, Str(<<>>), Str(<<"u","1">>)}
                   ELSE {Undefined}

RawInputs(tool) ==
    [count : RawCount(tool), days : RawDays(tool), limit : RawLimit(tool),
     query : RawQuery(tool), userId : RawUserId(tool),
     department : {Undefined}, jobTitle : {Undefined}, skills : {Undefined}]

-----------------------------------------------------------------------------
(* Tool handlers                                                           *)

\* A text is a sequence of fragments.  The result of a handler is
\* [kind, content]: "resolved" with its content, or "rejected" when the
\* handler's promise rejects; "invalid" is the dispatcher's schema error.
NoResult == [kind |-> "none", content |-> <<>>]
InvalidResult == [kind |-> "invalid", content |-> <<>>]
TextResult(text) == [kind |-> "resolved",
                     content |-> <<[type |-> "text", text |-> text]>>]
RejectedResult == [kind |-> "rejected", content |-> <<>>]

AuthRequiredText ==
    <<"Authentication configuration is required to use this feature. Please set up TENANT_ID, CLIENT_ID, and CLIENT_SECRET environment variables.">>

\* The text of each handler's catch block, `Failed to <verb> <what>: ${error}`
FailedVerb(tool) ==
    CASE tool = "search-users" -> "Failed to search"
      [] tool = "advanced-user-search" -> "Failed to perform"
      [] OTHER -> "Failed to retrieve"

FailedWhat(tool) ==
    CASE tool = "get-profile" -> " user profile"
      [] tool = "get-emails" -> " emails"
      [] tool = "get-calendar-events" -> " calendar events"
      [] tool = "search-users" -> " users"
      [] tool = "get-enhanced-profile" -> " enhanced user profile"
      [] tool = "get-direct-reports" -> " direct reports"
      [] tool = "get-manager" -> " manager information"
      [] tool = "get-presence" -> " presence information"
      [] tool = "get-teamwork" -> " teamwork information"
      [] tool = "advanced-user-search" -> " advanced user search"
      [] OTHER -> ""

FailedTextNoDetail(tool, error) == <<"Failed", FailedWhat(tool)>>

FailedText(tool, error) == <<FailedVerb(tool), FailedWhat(tool), ": ", error>>

CheckAuthTextAlwaysConfigured(real) ==
    <<"Authentication Status: ", "Configured",
      "Authentication is properly configured. All Graph API features should be available.">>

\* part_000 lines 180-207
CheckAuthText(real) ==
    IF Truthy(real)
    THEN <<"Authentication Status: ", "Configured",
           "Authentication is properly configured. All Graph API features should be available.">>
    ELSE <<"Authentication Status: ", "Not Configured",
           "To use JBAssist with Microsoft Graph, you need to set up authentication:">>

\* The Graph requests of a handler, in order: [client, path, userId]
Endpoint(client, path) == [client |-> client, path |-> path, userId |-> <<>>]
UserEndpointEmptyIsAUser(userId, resource) ==
    IF userId.def
    THEN [client |-> "beta", path |-> "/users/{userId}/" \o resource,
          userId |-> userId.val]
    ELSE [client |-> "beta", path |-> "/me/" \o resource, userId |-> <<>>]

UserEndpoint(userId, resource) ==
    IF Truthy(userId)
    THEN [client |-> "beta", path |-> "/users/{userId}/" \o resource,
          userId |-> userId.val]
    ELSE [client |-> "beta", path |-> "/me/" \o resource, userId |-> <<>>]

RequestsPresenceFirst(tool, args) ==
    IF tool = "get-teamwork"
    THEN <<Endpoint("beta", "/me/presence"), Endpoint("beta", "/me/joinedTeams")>>
    ELSE <<Endpoint("beta", "/me")>>

Requests(tool, args) ==
    CASE tool = "get-profile" -> <<Endpoint("standard", "/me")>>
      [] tool = "get-emails" -> <<Endpoint("standard", "/me/messages")>>
      [] tool = "get-calendar-events" -> <<Endpoint("standard", "/me/calendarView")>>
      [] tool = "search-users" -> <<Endpoint("standard", "/users")>>
      [] tool = "get-enhanced-profile" -> <<Endpoint("beta", "/me")>>
      [] tool = "get-direct-reports" -> <<UserEndpoint(args.userId, "directReports")>>
      [] tool = "get-manager" -> <<UserEndpoint(args.userId, "manager")>>
      [] tool = "get-presence" -> <<UserEndpoint(args.userId, "presence")>>
      [] tool = "get-teamwork" -> <<Endpoint("beta", "/me/joinedTeams"),
                                    Endpoint("beta", "/me/presence")>>
      [] tool = "advanced-user-search" -> <<Endpoint("beta", "/users")>>
      [] OTHER -> <<>>

\* What a Graph request resolves with.  "null": no body; "novalue": an object
\* whose value list is missing or empty; "baditems": an object (or a list of
\* items) missing the fields the handler reads; "full": everything present.
Bodies == {"null", "novalue", "baditems", "full"}

Text(t) == [threw |-> FALSE, error |-> "", text |-> t]
Throws(e) == [threw |-> TRUE, error |-> e, text |-> <<>>]

\* String.prototype.toLowerCase, on the letters the inputs use
toLowerCase(s) ==
    [k \in DOMAIN s |-> CASE s[k] = "A" -> "a"
                          [] s[k] = "B" -> "b"
                          [] s[k] = "C" -> "c"
                          [] OTHER -> s[k]]

\* String.prototype.trim
trim(s) ==
    LET kept == {k \in DOMAIN s : s[k] \notin {" ", "\t", "\n"}}
    IN IF kept = {} THEN <<>>
       ELSE SubSeq(s, CHOOSE a \in kept : \A k \in kept : a <= k,
                      CHOOSE b \in kept : \A k \in kept : b >= k)

\* What GET /users resolves with: null, or an object whose value list may be
\* missing.  A user is [displayName, skills]: displayName "" stands for a
\* missing one, skills is a list of strings or missing.
NullBody == [null |-> TRUE, value |-> [def |-> FALSE, val |-> <<>>]]
NoValueBody == [null |-> FALSE, value |-> [def |-> FALSE, val |-> <<>>]]
ValueBody(list) == [null |-> FALSE, value |-> [def |-> TRUE, val |-> list]]
NoSkills == [def |-> FALSE, val |-> <<>>]
Skills(list) == [def |-> TRUE, val |-> list]
User(name, skills) == [displayName |-> name, skills |-> skills]

skillsArrayNotTrimmed(skills) ==
    LET parts == Split(skills, ",")
    IN [k \in DOMAIN parts |-> toLowerCase(parts[k])]

\* skills.split(',').map(s => s.trim().toLowerCase())
skillsArray(skills) ==
    LET parts == Split(skills, ",")
    IN [k \in DOMAIN parts |-> toLowerCase(trim(parts[k]))]

\* The callback of users.value.filter
hasRequestedSkill(user, wanted) ==
    IF ~user.skills.def THEN FALSE
    ELSE \E k \in DOMAIN user.skills.val :
            \E j \in DOMAIN wanted : wanted[j] = toLowerCase(user.skills.val[k])

\* advanced-user-search after its await
advancedUserSearch(args, users) ==
    IF users.null THEN Throws("TypeError")
    ELSE IF ~users.value.def \/ Len(users.value.val) = 0
    THEN Text(<<"No users found matching the criteria.">>)
    ELSE LET wanted == skillsArray(args.skills.val)
             filteredUsers ==
                 IF Truthy(args.skills)
                 THEN SelectSeq(users.value.val,
                                LAMBDA user : hasRequestedSkill(user, wanted))
                 ELSE users.value.val
         IN IF Len(filteredUsers) = 0
            THEN Text(<<"No users found with the specified skills.">>)
            ELSE Text(<<"Advanced User Search Results:">> \o
                      [k \in DOMAIN filteredUsers |->
                          IF filteredUsers[k].displayName = "" THEN "N/A"
                          ELSE filteredUsers[k].displayName])

\* The users a body of each kind holds
UsersBody(body) ==
    CASE body = "null" -> NullBody
      [] body = "novalue" -> NoValueBody
      [] body = "baditems" -> ValueBody(<<User("", NoSkills)>>)
      [] OTHER -> ValueBody(<<User("u1", Skills(<< <<"A">> >>))>>)

\* The code after the last await of each handler: it renders a text or throws.
Render(tool, args, bodies) ==
    LET body == bodies[Len(bodies)]
    IN CASE tool = "get-profile" ->
              IF body = "null" THEN Throws("TypeError")
              ELSE Text(<<"User Profile Information:">>)
         [] tool = "get-emails" ->
              IF body = "null" THEN Throws("TypeError")
              ELSE IF body = "novalue" THEN Text(<<"No emails found in the inbox.">>)
              ELSE IF body = "baditems" THEN Throws("TypeError")
              ELSE Text(<<"Recent ", ToString(args.count.val), " emails:">>)
         [] tool = "get-calendar-events" ->
              IF body = "null" THEN Throws("TypeError")
              ELSE IF body = "novalue"
              THEN Text(<<"No calendar events found in the next ",
                          ToString(args.days.val), " days.">>)
              ELSE IF body = "baditems" THEN Throws("TypeError")
              ELSE Text(<<"Calendar events for the next ",
                          ToString(args.days.val), " days:">>)
         [] tool = "search-users" ->
              IF body = "null" THEN Throws("TypeError")
              ELSE IF body = "novalue" THEN Text(<<"No users found matching '", "'.">>)
              ELSE Text(<<"Users matching '", "':">>)
         [] tool = "get-enhanced-profile" ->
              IF body = "null" THEN Throws("TypeError")
              ELSE Text(<<"Enhanced User Profile (Beta API):">>)
         [] tool = "get-direct-reports" ->
              IF body = "null" THEN Throws("TypeError")
              ELSE IF body = "novalue" THEN Text(<<"No direct reports found.">>)
              ELSE Text(<<"Direct Reports:">>)
         [] tool = "get-manager" ->
              IF body = "null" THEN Text(<<"No manager information found.">>)
              ELSE Text(<<"Manager Information:">>)
         [] tool = "get-presence" ->
              IF body = "null" THEN Text(<<"No presence information found.">>)
              ELSE Text(<<"Presence Information:">>)
         [] tool = "get-teamwork" ->
              LET presence == IF bodies[2] = "null" THEN <<>> ELSE <<"Presence:">>
                  teams == IF bodies[1] \in {"null", "novalue"}
                           THEN <<"No teams found for this user.">>
                           ELSE <<"Joined Teams">>
              IN Text(<<"Microsoft Teams Information:">> \o presence \o teams)
         [] tool = "advanced-user-search" ->
              advancedUserSearch(args, UsersBody(body))
         [] OTHER -> Throws("TypeError")

\* try { ... } catch (error) { logToFile(...); return { content: [...] } }
tryCatchRethrow(tool, r) ==
    IF r.threw THEN RejectedResult ELSE TextResult(r.text)

tryCatchSharedError(tool, r) ==
    IF r.threw THEN TextResult(FailedText(tool, r.error))
    ELSE IF \E k \in DOMAIN inv : inv[k].tokenFailed \/ inv[k].httpFailed
    THEN TextResult(FailedText(tool, "GraphError"))
    ELSE TextResult(r.text)

tryCatch(tool, r) ==
    IF r.threw THEN TextResult(FailedText(tool, r.error)) ELSE TextResult(r.text)

AuthGateProfileOnly(v, tool, real) ==
    v = "lenient" /\ tool = "get-profile" /\ ~Truthy(real)

\* Only the lenient entry point tests isUsingRealAuth, in get-profile and get-emails.
AuthGate(v, tool, real) ==
    v = "lenient" /\ tool \in {"get-profile", "get-emails"} /\ ~Truthy(real)

-----------------------------------------------------------------------------------------------------------------------------------------------------
(* Invocations                                                             *)

NoArgs == [f \in ArgFields |-> UndefOf(f)]

\* The first logToFile of each handler
CalledMessage(tool, args) ==
    LET user == IF Truthy(args.userId) THEN "userId" ELSE "current user"
    IN CASE tool = "get-profile" -> << <<"Get profile tool called">> >>
         [] tool = "get-emails" ->
              << <<"Get emails tool called, requesting ",
                   ToString(args.count.val), " emails">> >>
         [] tool = "get-calendar-events" ->
              << <<"Get calendar events tool called, looking ahead ",
                   ToString(args.days.val), " days">> >>
         [] tool = "search-users" ->
              << <<"Search users tool called with query: ", ", limit: ",
                   ToString(args.limit.val)>> >>
         [] tool = "get-enhanced-profile" ->
              << <<"Get enhanced profile tool called (beta API)">> >>
         [] tool = "get-direct-reports" ->
              << <<"Get direct reports tool called for user: ", user, " (beta API)">> >>
         [] tool = "get-manager" ->
              << <<"Get manager tool called for user: ", user, " (beta API)">> >>
         [] tool = "get-presence" ->
              << <<"Get presence tool called for user: ", user, " (beta API)">> >>
         [] tool = "get-teamwork" ->
              << <<"Get teamwork information tool called (beta API)">> >>
         [] tool = "advanced-user-search" ->
              << <<"Advanced user search called with query: ", " (beta API)">> >>
         [] OTHER -> <<>>

\* The logToFile of each handler's catch block
CaughtMessage(tool, error) ==
    CASE tool = "get-profile" -> <<"Error fetching user profile: ", error>>
      [] tool = "get-emails" -> <<"Error fetching emails: ", error>>
      [] tool = "get-calendar-events" -> <<"Error fetching calendar events: ", error>>
      [] tool = "search-users" -> <<"Error searching users: ", error>>
      [] tool = "get-enhanced-profile" ->
           <<"Error fetching enhanced user profile: ", error>>
      [] tool = "get-direct-reports" -> <<"Error fetching direct reports: ", error>>
      [] tool = "get-manager" -> <<"Error fetching manager information: ", error>>
      [] tool = "get-presence" -> <<"Error fetching presence information: ", error>>
      [] tool = "get-teamwork" -> <<"Error fetching teamwork information: ", error>>
      [] OTHER -> <<"Error in advanced user search: ", error>>

\* One invocation: where its handler stands, what it was called with, and
\* what it did so far: req is the request it is at, asked the provider
\* objects it asked for a token, tokens the token fetches and sent the HTTP
\* requests it started, settled the remote calls of it that settled,
\* exchanges the credential.getToken calls made for it, bodies the answers it
\* got, logged the messages it passed to logToFile, written those of them
\* that reached the log file.
IdleSlot == [pc |-> "idle", tool |-> "", raw |-> NoArgs, args |-> NoArgs,
             req |-> 0, bodies |-> <<>>, token |-> "", tokens |-> 0,
             sent |-> <<>>, tokenFailed |-> FALSE, asked |-> <<>>,
             settled |-> 0, exchanges |-> 0, httpFailed |-> FALSE,
             logged |-> <<>>, written |-> <<>>, result |-> NoResult]

ClientOf(name) == IF name = "beta" THEN graphBetaClient ELSE graphClient

Done(slot, result) == [slot EXCEPT !.pc = "done", !.result = result]

\* The handler returns: from its try block, or from its catch block after
\* logging the error.
Finish(slot, r) ==
    Done([slot EXCEPT !.logged =
              IF r.threw THEN Append(@, CaughtMessage(slot.tool, r.error)) ELSE @],
         tryCatch(slot.tool, r))

\* A stretch of a handler took the invocation from old to new: its messages go
\* through logToFile; a throw of logToFile, outside the try block or inside
\* the catch block, would reject the handler's promise.
Logged(old, new, writable) ==
    LET fresh == SubSeq(new.logged, Len(old.logged) + 1, Len(new.logged))
        l == LogAll(fresh, writable)
        kept == [new EXCEPT !.written = old.written \o l.appended]
    IN IF l.threw THEN Done(kept, RejectedResult) ELSE kept

BeginRequestCachesToken(slot, n) ==
    LET r == Requests(slot.tool, slot.args)[n]
    IN IF slot.token # ""
       THEN [slot EXCEPT !.pc = "http", !.req = n, !.sent = Append(@, r)]
       ELSE [slot EXCEPT !.pc = "token", !.req = n, !.tokens = @ + 1,
                         !.asked = Append(@, ClientOf(r.client).authProvider.instance)]

BeginRequestNotAwaited(slot, n) ==
    LET r == Requests(slot.tool, slot.args)[n]
        started == [slot EXCEPT !.pc = "token", !.req = n, !.tokens = @ + 1,
                       !.asked = Append(@, ClientOf(r.client).authProvider.instance)]
    IN IF n = 1 THEN started
       ELSE Finish(started, Text(<<"Microsoft Teams Information:">>))

\* graphClient.api(path)....get(): the client first asks its provider for a token
BeginRequest(slot, n) ==
    LET r == Requests(slot.tool, slot.args)[n]
    IN [slot EXCEPT !.pc = "token", !.req = n, !.tokens = @ + 1,
                    !.asked = Append(@, ClientOf(r.client).authProvider.instance)]

HandlerStartAnswersFromEarlierCall(tool, raw, args) ==
    LET slot == [IdleSlot EXCEPT !.tool = tool, !.raw = raw, !.args = args,
                                 !.logged = CalledMessage(tool, args)]
        earlier == {k \in DOMAIN inv : /\ inv[k].pc = "done"
                                       /\ inv[k].tool = tool
                                       /\ inv[k].args = args}
    IN IF earlier # {}
       THEN Done(slot, inv[CHOOSE k \in earlier : TRUE].result)
       ELSE BeginRequest(slot, 1)

\* The handler from its first line to its first await or return
HandlerStart(tool, raw, args) ==
    LET slot == [IdleSlot EXCEPT !.tool = tool, !.raw = raw, !.args = args,
                                 !.logged = CalledMessage(tool, args)]
    IN IF tool = "check-auth"
       THEN Done(slot, TextResult(CheckAuthText(isUsingRealAuth)))
       ELSE IF AuthGate(variant, tool, isUsingRealAuth)
       THEN Finish(slot, Text(AuthRequiredText))
       ELSE BeginRequest(slot, 1)

-----------------------------------------------------------------------------
(* Actions                                                                 *)

Init ==
    /\ variant \in {"full", "legacy", "lenient"}
    /\ env \in [TENANT_ID : TenantValues, CLIENT_ID : ClientValues,
                CLIENT_SECRET : SecretValues, SCOPES : ScopesValues]
    /\ pc = "init"
    /\ tenantId = Undefined
    /\ clientId = Undefined
    /\ clientSecret = Undefined
    /\ scopes = <<>>
    /\ isUsingRealAuth = Undefined
    /\ graphClient = NoClient
    /\ graphBetaClient = NoClient
    /\ tools = {}
    /\ connected = FALSE
    /\ exitCode = -1
    /\ exitReason = ""
    /\ caught = ""
    /\ registry = <<>>
    /\ log = <<>>
    /\ logWritable = TRUE
    /\ logFile = <<>>
    /\ inv = [i \in Slots |-> IdleSlot]

\* The message of the catch block that ends the process
FatalMessage(reason, error) ==
    IF reason = "setup" THEN <<"Fatal error during setup: ", error>>
    ELSE <<"Fatal error initializing server: ", error>>

FatalExitCodeZero(reason, error, logged) ==
    /\ pc' = "exited"
    /\ exitCode' = 0
    /\ exitReason' = reason
    /\ caught' = error
    /\ log' = Append(logged, FatalMessage(reason, error))

\* A catch block logs the error and calls process.exit(1)
FatalExit(reason, error, logged) ==
    /\ pc' = "exited"
    /\ exitCode' = 1
    /\ exitReason' = reason
    /\ caught' = error
    /\ log' = Append(logged, FatalMessage(reason, error))

\* A throw of logToFile in the start-up code would reach a catch block whose
\* own logToFile call throws again: an uncaught exception, which ends the
\* process with code 1.
UncaughtExit(logged) ==
    /\ pc' = "exited"
    /\ exitCode' = 1
    /\ exitReason' = "uncaught"
    /\ caught' = "LogError"
    /\ log' = logged

\* The messages of this step that reached the log file
AppendedToLogFile ==
    /\ logFile' = logFile \o LogAll(SubSeq(log', Len(log) + 1, Len(log')),
                                    logWritable).appended
    /\ UNCHANGED logWritable

\* main() up to await server.connect(transport): new StdioServerTransport()
\* may throw, which main's catch turns into process.exit(1).
Main(transportOk, logged) ==
    IF transportOk
    THEN /\ pc' = "connecting"
         /\ log' = logged \o << <<"Creating stdio transport">>,
                                <<"Connecting server to transport">> >>
         /\ UNCHANGED <<exitCode, exitReason, caught>>
    ELSE FatalExit("main", "TransportError",
                   Append(logged, <<"Creating stdio transport">>))

\* server.tool(name, ...) once for each name, in the order of the source
FullRegistrationsTwice ==
    <<"get-profile", "get-emails", "get-calendar-events", "search-users",
      "get-enhanced-profile", "get-direct-reports", "get-manager",
      "get-presence", "get-teamwork", "advanced-user-search", "get-profile">>

FullRegistrations ==
    <<"get-profile", "get-emails", "get-calendar-events", "search-users",
      "get-enhanced-profile", "get-direct-reports", "get-manager",
      "get-presence", "get-teamwork", "advanced-user-search">>
LegacyRegistrations ==
    <<"get-profile", "get-emails", "get-calendar-events", "search-users">>
LenientRegistrations == <<"get-profile", "get-emails", "check-auth">>

\* The names the server dispatches after these registrations
Registered(names) == {names[k] : k \in DOMAIN names}

Started == << <<"Initializing MCP server">> >>

\* index.ts 21-795, the synchronous part
SetupFull ==
    /\ pc = "init"
    /\ variant = "full"
    /\ tenantId' = env.TENANT_ID
    /\ clientId' = env.CLIENT_ID
    /\ clientSecret' = env.CLIENT_SECRET
    /\ scopes' = Split(JsOr(env.SCOPES, Str(DefaultScopes)).val, ",")
    /\ UNCHANGED <<variant, env, isUsingRealAuth, connected, inv>>
    /\ IF LogAll(Started, logWritable).threw
       THEN /\ UncaughtExit(Started)
            /\ UNCHANGED <<graphClient, graphBetaClient, tools, registry>>
       ELSE IF ~Truthy(tenantId') \/ ~Truthy(clientId') \/ ~Truthy(clientSecret')
       THEN /\ FatalExit("setup", MissingEnvironment, Started)
            /\ UNCHANGED <<graphClient, graphBetaClient, tools, registry>>
       ELSE LET g == initializeGraphClient(tenantId', clientId', clientSecret', scopes')
                b == initializeGraphBetaClient(tenantId', clientId', clientSecret', scopes')
            IN IF g.threw
               THEN /\ FatalExit("setup", g.error, Started \o g.logged)
                    /\ UNCHANGED <<graphClient, graphBetaClient, tools, registry>>
               ELSE IF b.threw
               THEN /\ FatalExit("setup", b.error, Started \o g.logged \o b.logged)
                    /\ graphClient' = g.client
                    /\ UNCHANGED <<graphBetaClient, tools, registry>>
               ELSE /\ graphClient' = g.client
                    /\ graphBetaClient' = b.client
                    /\ registry' = FullRegistrations
                    /\ tools' = Registered(registry')
                    /\ \E transportOk \in BOOLEAN :
                         Main(transportOk, Started \o g.logged \o b.logged)
    /\ AppendedToLogFile

\* index.ts 869-1152, the synchronous part
SetupLegacy ==
    /\ pc = "init"
    /\ variant = "legacy"
    /\ UNCHANGED <<variant, env, tenantId, clientId, clientSecret, scopes,
                   isUsingRealAuth, graphBetaClient, connected, inv>>
    /\ LET g == legacyInitializeGraphClient(env)
       IN IF LogAll(Started, logWritable).threw
          THEN /\ UncaughtExit(Started)
               /\ UNCHANGED <<graphClient, tools, registry>>
          ELSE IF g.threw
          THEN /\ FatalExit("setup", g.error, Started \o g.logged)
               /\ UNCHANGED <<graphClient, tools, registry>>
          ELSE /\ graphClient' = g.client
               /\ registry' = LegacyRegistrations
               /\ tools' = Registered(registry')
               /\ \E transportOk \in BOOLEAN :
                    Main(transportOk, Started \o g.logged)
    /\ AppendedToLogFile

\* part_000 21-238, the synchronous part
SetupLenient ==
    /\ pc = "init"
    /\ variant = "lenient"
    /\ tenantId' = JsOr(env.TENANT_ID, Str(DemoTenantId))
    /\ clientId' = JsOr(env.CLIENT_ID, Str(DemoClientId))
    /\ clientSecret' = JsOr(env.CLIENT_SECRET, Str(DemoClientSecret))
    /\ scopes' = Split(JsOr(env.SCOPES, Str(DefaultScopes)).val, ",")
    /\ isUsingRealAuth' = IsUsingRealAuth(env)
    /\ UNCHANGED <<variant, env, connected, inv>>
    /\ LET warned == Started \o
                     (IF Truthy(isUsingRealAuth') THEN <<>>
                      ELSE << <<"WARNING: Using demo credentials - Graph API functionality will be limited">> >>)
           g == initializeGraphClient(tenantId', clientId', clientSecret', scopes')
           b == initializeGraphBetaClient(tenantId', clientId', clientSecret', scopes')
       IN IF LogAll(Started, logWritable).threw
          THEN /\ UncaughtExit(Started)
               /\ UNCHANGED <<graphClient, graphBetaClient, tools, registry>>
          ELSE IF g.threw
          THEN /\ FatalExit("setup", g.error, warned \o g.logged)
               /\ UNCHANGED <<graphClient, graphBetaClient, tools, registry>>
          ELSE IF b.threw
          THEN /\ FatalExit("setup", b.error, warned \o g.logged \o b.logged)
               /\ graphClient' = g.client
               /\ UNCHANGED <<graphBetaClient, tools, registry>>
          ELSE /\ graphClient' = g.client
               /\ graphBetaClient' = b.client
               /\ registry' = LenientRegistrations
               /\ tools' = Registered(registry')
               /\ \E transportOk \in BOOLEAN :
                    Main(transportOk, warned \o g.logged \o b.logged)
    /\ AppendedToLogFile

\* await server.connect(transport) settles
ConnectReturn ==
    /\ pc = "connecting"
    /\ \E ok \in BOOLEAN :
         LET message == IF ok THEN <<"MS Graph MCP Server running on stdio">>
                        ELSE FatalMessage("main", "ConnectError")
         IN IF LogAll(<<message>>, logWritable).threw
            THEN UncaughtExit(Append(log, message)) /\ UNCHANGED connected
            ELSE IF ok
            THEN /\ pc' = "running"
                 /\ connected' = TRUE
                 /\ log' = Append(log, message)
                 /\ UNCHANGED <<exitCode, exitReason, caught>>
            ELSE FatalExit("main", "ConnectError", log) /\ UNCHANGED connected
    /\ AppendedToLogFile
    /\ UNCHANGED <<variant, env, tenantId, clientId, clientSecret, scopes,
                   isUsingRealAuth, graphClient, graphBetaClient, tools,
                   registry, inv>>

\* The dispatcher receives a call of a registered tool: it parses the
\* arguments and, if they are valid, runs the handler to its first await.
InvokeTool(i, tool) ==
    /\ pc = "running"
    /\ inv[i].pc = "idle"
    /\ tool \in tools
    /\ \E raw \in RawInputs(tool) :
         LET p == parseArgs(tool, raw)
         IN inv' = [inv EXCEPT ![i] =
                IF p.ok
                THEN Logged(IdleSlot, HandlerStart(tool, raw, p.args), logWritable)
                ELSE [IdleSlot EXCEPT !.pc = "rejected", !.tool = tool,
                                      !.raw = raw, !.result = InvalidResult]]
    /\ UNCHANGED startupVars

Invoke(i) == \E tool \in tools : InvokeTool(i, tool)

TokenReturnFallsBackToMock(i) ==
    /\ pc = "running"
    /\ inv[i].pc = "token"
    /\ LET slot == inv[i]
           r == Requests(slot.tool, slot.args)[slot.req]
       IN \E t \in getAccessToken(ClientOf(r.client).authProvider) :
            /\ inv' = [inv EXCEPT ![i] =
                 LET got == [slot EXCEPT !.settled = @ + 1,
                                         !.exchanges = @ + t.exchanges,
                                         !.logged = @ \o t.logged]
                 IN Logged(slot,
                           IF t.ok
                           THEN [got EXCEPT !.pc = "http", !.token = t.token,
                                            !.sent = Append(@, r)]
                           ELSE Finish([got EXCEPT !.tokenFailed = TRUE],
                                       Throws(t.error)),
                           logWritable)]
            /\ graphClient' =
                 IF t.ok THEN graphClient
                 ELSE [graphClient EXCEPT
                          !.authProvider = MockAuthProvider("initializeGraphClient")]
    /\ UNCHANGED <<variant, env, pc, tenantId, clientId, clientSecret, scopes,
                   isUsingRealAuth, graphBetaClient, tools, connected,
                   exitCode, exitReason, caught, registry, log, logWritable,
                   logFile>>

\* await authProvider.getAccessToken() settles; with a token the request is
\* sent, without one the error reaches the handler's catch block.
TokenReturn(i) ==
    /\ pc = "running"
    /\ inv[i].pc = "token"
    /\ LET slot == inv[i]
           r == Requests(slot.tool, slot.args)[slot.req]
       IN \E t \in getAccessToken(ClientOf(r.client).authProvider) :
            inv' = [inv EXCEPT ![i] =
                LET got == [slot EXCEPT !.settled = @ + 1,
                                        !.exchanges = @ + t.exchanges,
                                        !.logged = @ \o t.logged]
                IN Logged(slot,
                          IF t.ok
                          THEN [got EXCEPT !.pc = "http", !.token = t.token,
                                           !.sent = Append(@, r)]
                          ELSE Finish([got EXCEPT !.tokenFailed = TRUE],
                                      Throws(t.error)),
                          logWritable)]
    /\ UNCHANGED startupVars

HttpReturnInArrivalOrder(i) ==
    /\ pc = "running"
    /\ inv[i].pc = "http"
    /\ \A k \in DOMAIN inv : k < i => inv[k].pc \notin {"token", "http"}
    /\ LET slot == [inv[i] EXCEPT !.settled = @ + 1]
           n == Len(Requests(slot.tool, slot.args))
       IN \/ inv' = [inv EXCEPT ![i] =
                       Logged(slot, Finish([slot EXCEPT !.httpFailed = TRUE],
                                           Throws("GraphError")), logWritable)]
          \/ \E body \in Bodies :
               LET got == [slot EXCEPT !.bodies = Append(@, body)]
               IN inv' = [inv EXCEPT ![i] =
                     Logged(slot,
                            IF slot.req < n THEN BeginRequest(got, slot.req + 1)
                            ELSE Finish(got, Render(slot.tool, slot.args, got.bodies)),
                            logWritable)]
    /\ UNCHANGED startupVars

\* The HTTP request settles: a non-2xx answer rejects, a 2xx answer resolves
\* with its body; the handler goes on to its next await or to its return.
HttpReturn(i) ==
    /\ pc = "running"
    /\ inv[i].pc = "http"
    /\ LET slot == [inv[i] EXCEPT !.settled = @ + 1]
           n == Len(Requests(slot.tool, slot.args))
       IN \/ inv' = [inv EXCEPT ![i] =
                       Logged(slot, Finish([slot EXCEPT !.httpFailed = TRUE],
                                           Throws("GraphError")), logWritable)]
          \/ \E body \in Bodies :
               LET got == [slot EXCEPT !.bodies = Append(@, body)]
               IN inv' = [inv EXCEPT ![i] =
                     Logged(slot,
                            IF slot.req < n THEN BeginRequest(got, slot.req + 1)
                            ELSE Finish(got, Render(slot.tool, slot.args, got.bodies)),
                            logWritable)]
    /\ UNCHANGED startupVars

\* The transport writes the response of a finished call
Deliver(i) ==
    /\ inv[i].pc \in {"done", "rejected"}
    /\ inv' = [inv EXCEPT ![i] = IdleSlot]
    /\ UNCHANGED startupVars

Next ==
    \/ SetupFull
    \/ SetupLegacy
    \/ SetupLenient
    \/ ConnectReturn
    \/ \E i \in DOMAIN inv : Invoke(i)
    \/ \E i \in DOMAIN inv : TokenReturn(i)
    \/ \E i \in DOMAIN inv : HttpReturn(i)
    \/ \E i \in DOMAIN inv : Deliver(i)

Spec == Init /\ [][Next]_vars

-----------------------------------------------------------------------------
(* The log file may be unwritable                                           *)

\* Every entry point, with credentials that are real, contain "demo", or lack
\* the secret; the log file is writable or not.
InitLog ==
    /\ variant \in {"full", "legacy", "lenient"}
    /\ env \in [TENANT_ID : {Str(<<"D","e","m","o","1">>), Str(<<"d","e","m","o","1">>)},
                CLIENT_ID : {Str(<<"a","p","p","-","D","E","M","O">>)},
                CLIENT_SECRET : {Undefined, Str(<<"s","3","c","r","e","t">>)},
                SCOPES : {Undefined}]
    /\ pc = "init"
    /\ tenantId = Undefined
    /\ clientId = Undefined
    /\ clientSecret = Undefined
    /\ scopes = <<>>
    /\ isUsingRealAuth = Undefined
    /\ graphClient = NoClient
    /\ graphBetaClient = NoClient
    /\ tools = {}
    /\ connected = FALSE
    /\ exitCode = -1
    /\ exitReason = ""
    /\ caught = ""
    /\ registry = <<>>
    /\ log = <<>>
    /\ logWritable \in BOOLEAN
    /\ logFile = <<>>
    /\ inv = [i \in Slots |-> IdleSlot]

\* The file becomes unwritable (disk full, permissions) or writable again
LogFileChange ==
    /\ pc # "exited"
    /\ logWritable' = ~logWritable
    /\ UNCHANGED <<variant, env, pc, tenantId, clientId, clientSecret, scopes,
                   isUsingRealAuth, graphClient, graphBetaClient, tools,
                   connected, exitCode, exitReason, caught, registry, log,
                   logFile, inv>>

\* The tools called here: one request, two requests in a row, and none
LogTools == {"get-profile", "get-teamwork", "check-auth"}

NextLog ==
    \/ SetupFull
    \/ SetupLegacy
    \/ SetupLenient
    \/ ConnectReturn
    \/ \E i \in DOMAIN inv : \E tool \in LogTools : InvokeTool(i, tool)
    \/ \E i \in DOMAIN inv : TokenReturn(i)
    \/ \E i \in DOMAIN inv : HttpReturn(i)
    \/ \E i \in DOMAIN inv : Deliver(i)
    \/ LogFileChange

SpecLog == InitLog /\ [][NextLog]_vars

-----------------------------------------------------------------------------
(* The exported initializers of auth.ts, called on any arguments            *)

ScopesArguments == {Split(JsOr(sc, Str(DefaultScopes)).val, ",") : sc \in ScopesValues}

\* A caller holds three strings and a scopes list; nothing is built yet.
InitFactory ==
    /\ variant = "auth"
    /\ env = [TENANT_ID |-> Undefined, CLIENT_ID |-> Undefined,
              CLIENT_SECRET |-> Undefined, SCOPES |-> Undefined]
    /\ pc = "init"
    /\ tenantId \in TenantValues
    /\ clientId \in ClientValues
    /\ clientSecret \in SecretValues
    /\ scopes \in ScopesArguments
    /\ isUsingRealAuth = Undefined
    /\ graphClient = NoClient
    /\ graphBetaClient = NoClient
    /\ tools = {}
    /\ connected = FALSE
    /\ exitCode = -1
    /\ exitReason = ""
    /\ caught = ""
    /\ registry = <<>>
    /\ log = <<>>
    /\ logWritable = TRUE
    /\ logFile = <<>>
    /\ inv = [i \in Slots |-> IdleSlot]

\* initializeGraphClient(tenantId, clientId, clientSecret, scopes)
CallInitializeGraphClient ==
    /\ variant = "auth"
    /\ pc \in {"init", "beta"}
    /\ LET g == initializeGraphClient(tenantId, clientId, clientSecret, scopes)
       IN /\ graphClient' = g.client
          /\ caught' = g.error
          /\ log' = log \o g.logged
    /\ AppendedToLogFile
    /\ pc' = IF pc = "init" THEN "standard" ELSE "both"
    /\ UNCHANGED <<variant, env, tenantId, clientId, clientSecret, scopes,
                   isUsingRealAuth, graphBetaClient, tools, connected,
                   exitCode, exitReason, registry, inv>>

\* initializeGraphBetaClient(tenantId, clientId, clientSecret, scopes)
CallInitializeGraphBetaClient ==
    /\ variant = "auth"
    /\ pc \in {"init", "standard"}
    /\ LET b == initializeGraphBetaClient(tenantId, clientId, clientSecret, scopes)
       IN /\ graphBetaClient' = b.client
          /\ caught' = b.error
          /\ log' = log \o b.logged
    /\ AppendedToLogFile
    /\ pc' = IF pc = "init" THEN "beta" ELSE "both"
    /\ UNCHANGED <<variant, env, tenantId, clientId, clientSecret, scopes,
                   isUsingRealAuth, graphClient, tools, connected,
                   exitCode, exitReason, registry, inv>>

NextFactory ==
    \/ CallInitializeGraphClient
    \/ CallInitializeGraphBetaClient

SpecFactory == InitFactory /\ [][NextFactory]_vars

-----------------------------------------------------------------------------
(* Several invocations in flight at the full entry point                    *)

\* The handlers are async: while one awaits, the dispatcher starts others.
ConcurrentSlots == 1..(MaxInFlight + 1)

\* The tools the client calls here: one request on the standard client with
\* and without arguments, one on the beta client, and two requests in a row.
ConcurrentTools == {"get-profile", "get-emails", "get-direct-reports", "get-teamwork"}

\* The full entry point started with real credentials in its environment
StartFull ==
    /\ variant = "full"
    /\ env = [TENANT_ID |-> Str(<<"D","e","m","o","1">>),
              CLIENT_ID |-> Str(<<"a","p","p","-","D","E","M","O">>),
              CLIENT_SECRET |-> Str(<<"s","3","c","r","e","t">>),
              SCOPES |-> Undefined]
    /\ pc = "init"
    /\ tenantId = Undefined
    /\ clientId = Undefined
    /\ clientSecret = Undefined
    /\ scopes = <<>>
    /\ isUsingRealAuth = Undefined
    /\ graphClient = NoClient
    /\ graphBetaClient = NoClient
    /\ tools = {}
    /\ connected = FALSE
    /\ exitCode = -1
    /\ exitReason = ""
    /\ caught = ""
    /\ registry = <<>>
    /\ log = <<>>
    /\ logWritable = TRUE
    /\ logFile = <<>>

InitConcurrent ==
    /\ StartFull
    /\ inv = [i \in ConcurrentSlots |-> IdleSlot]

NextConcurrent ==
    \/ SetupFull
    \/ ConnectReturn
    \/ \E i \in DOMAIN inv : \E tool \in ConcurrentTools : InvokeTool(i, tool)
    \/ \E i \in DOMAIN inv : TokenReturn(i)
    \/ \E i \in DOMAIN inv : HttpReturn(i)
    \/ \E i \in DOMAIN inv : Deliver(i)

SpecConcurrent == InitConcurrent /\ [][NextConcurrent]_vars

\* The tools of the invocation that may hang: one request, and two in a row
HangTools == {"get-profile", "get-teamwork"}

\* The other invocations are calls of get-profile.
NextHang ==
    \/ SetupFull
    \/ ConnectReturn
    \/ \E tool \in HangTools : InvokeTool(1, tool)
    \/ \E i \in DOMAIN inv \ {1} : InvokeTool(i, "get-profile")
    \/ \E i \in DOMAIN inv : TokenReturn(i)
    \/ \E i \in DOMAIN inv : HttpReturn(i)
    \/ \E i \in DOMAIN inv : Deliver(i)

\* One invocation may wait for ever for its token or its HTTP answer; the
\* remote calls of the others settle.
Others == ConcurrentSlots \ {1}

SpecOneHangs ==
    /\ InitConcurrent
    /\ [][NextHang]_vars
    /\ \A i \in Others : WF_vars(TokenReturn(i)) /\ WF_vars(HttpReturn(i))

\* The full entry point with all its tools
InitFull ==
    /\ StartFull
    /\ inv = [i \in Slots |-> IdleSlot]

NextFull ==
    \/ SetupFull
    \/ ConnectReturn
    \/ \E i \in DOMAIN inv : Invoke(i)
    \/ \E i \in DOMAIN inv : TokenReturn(i)
    \/ \E i \in DOMAIN inv : HttpReturn(i)
    \/ \E i \in DOMAIN inv : Deliver(i)

\* Every token exchange and every HTTP call eventually returns.
SpecFair ==
    /\ InitFull
    /\ [][NextFull]_vars
    /\ \A i \in Slots : WF_vars(TokenReturn(i)) /\ WF_vars(HttpReturn(i))

-----------------------------------------------------------------------------
(* advanced-user-search with a skills filter                               *)

MaxUsers == 2

SkillsValues == {Undefined, Str(<<>>), Str(<<"a">>), Str(<<" ">>),
                 Str(<<"A", ",", " ", "b", " ">>), Str(<<"c", ",">>)}

SearchUsers == {User("u1", NoSkills),
                User("u2", Skills(<< <<"A">> >>)),
                User("u3", Skills(<< <<"c">>, <<"B">> >>)),
                User("u4", Skills(<< <<" ", "a">> >>)),
                User("u5", Skills(<< <<>> >>)),
                User("u6", Skills(<<>>))}

SearchBodies ==
    {NullBody, NoValueBody}
    \cup {ValueBody(list) : list \in UNION {[1..n -> SearchUsers] : n \in 0..MaxUsers}}

SearchSlots == {1}

InitSearch ==
    /\ StartFull
    /\ inv = [i \in SearchSlots |-> IdleSlot]

\* A call of advanced-user-search with a valid query and any skills
SearchInvoke(i) ==
    /\ pc = "running"
    /\ inv[i].pc = "idle"
    /\ "advanced-user-search" \in tools
    /\ \E skills \in SkillsValues :
         LET raw == [NoArgs EXCEPT !.query = Str(<<"a", "b", "c">>),
                                   !.skills = skills]
             p == parseArgs("advanced-user-search", raw)
         IN /\ p.ok
            /\ inv' = [inv EXCEPT ![i] =
                  Logged(IdleSlot, HandlerStart("advanced-user-search", raw, p.args),
                         logWritable)]
    /\ UNCHANGED startupVars

\* GET /users settles, with an error or with a list of users
SearchReturn(i) ==
    /\ pc = "running"
    /\ inv[i].pc = "http"
    /\ LET slot == [inv[i] EXCEPT !.settled = @ + 1]
       IN \/ inv' = [inv EXCEPT ![i] =
                       Logged(slot, Finish([slot EXCEPT !.httpFailed = TRUE],
                                           Throws("GraphError")), logWritable)]
          \/ \E body \in SearchBodies :
               LET got == [slot EXCEPT !.bodies = Append(@, body)]
               IN inv' = [inv EXCEPT ![i] =
                     Logged(slot, Finish(got, advancedUserSearch(slot.args, body)),
                            logWritable)]
    /\ UNCHANGED startupVars

NextSearch ==
    \/ SetupFull
    \/ ConnectReturn
    \/ \E i \in DOMAIN inv : SearchInvoke(i)
    \/ \E i \in DOMAIN inv : TokenReturn(i)
    \/ \E i \in DOMAIN inv : SearchReturn(i)
    \/ \E i \in DOMAIN inv : Deliver(i)

SpecSearch == InitSearch /\ [][NextSearch]_vars

-----------------------------------------------------------------------------
(* The list tools and the shape of the list they get                       *)

MaxItems == 2

ListTools == {"get-emails", "get-calendar-events", "search-users",
              "get-direct-reports"}

\* An item of a value list: with the fields the handlers read, or without
Items == {"item", "baditem"}

ListBodies ==
    {NullBody, NoValueBody}
    \cup {ValueBody(list) : list \in UNION {[1..n -> Items] : n \in 0..MaxItems}}

BodyKindLengthOnly(body) ==
    IF body.null \/ ~body.value.def THEN "null"
    ELSE IF Len(body.value.val) = 0 THEN "novalue"
    ELSE IF \E k \in DOMAIN body.value.val : body.value.val[k] = "baditem"
    THEN "baditems"
    ELSE "full"

\* if (!messages.value || messages.value.length === 0), after reading
\* messages.value of what the request resolved with
BodyKind(body) ==
    IF body.null THEN "null"
    ELSE IF ~body.value.def \/ Len(body.value.val) = 0 THEN "novalue"
    ELSE IF \E k \in DOMAIN body.value.val : body.value.val[k] = "baditem"
    THEN "baditems"
    ELSE "full"

ListSlots == {1}

InitList ==
    /\ StartFull
    /\ inv = [i \in ListSlots |-> IdleSlot]

ListInvoke(i) == \E tool \in ListTools : InvokeTool(i, tool)

\* The request of a list tool settles, with an error or with a body
ListReturn(i) ==
    /\ pc = "running"
    /\ inv[i].pc = "http"
    /\ LET slot == [inv[i] EXCEPT !.settled = @ + 1]
       IN \/ inv' = [inv EXCEPT ![i] =
                       Logged(slot, Finish([slot EXCEPT !.httpFailed = TRUE],
                                           Throws("GraphError")), logWritable)]
          \/ \E body \in ListBodies :
               LET got == [slot EXCEPT !.bodies = Append(@, body)]
               IN inv' = [inv EXCEPT ![i] =
                     Logged(slot,
                            Finish(got, Render(slot.tool, slot.args,
                                               <<BodyKind(body)>>)),
                            logWritable)]
    /\ UNCHANGED startupVars

NextList ==
    \/ SetupFull
    \/ ConnectReturn
    \/ \E i \in DOMAIN inv : ListInvoke(i)
    \/ \E i \in DOMAIN inv : TokenReturn(i)
    \/ \E i \in DOMAIN inv : ListReturn(i)
    \/ \E i \in DOMAIN inv : Deliver(i)

SpecList == InitList /\ [][NextList]_vars

-----------------------------------------------------------------------------
(* Properties                                                              *)

\* The four letters d, e, m, o in a row, written out position by position.
ContainsDemo(s) ==
    \E k \in 1..Len(s) :
        /\ k + 3 <= Len(s)
        /\ s[k] = "d" /\ s[k + 1] = "e" /\ s[k + 2] = "m" /\ s[k + 3] = "o"

Missing(v) == ~v.def \/ Len(v.val) = 0
AnyMissing == Missing(env.TENANT_ID) \/ Missing(env.CLIENT_ID)
                \/ Missing(env.CLIENT_SECRET)

\* The entry points whose clients come from auth.ts
UsesAuthModule == variant \in {"full", "lenient"}

AnyDemo == ContainsDemo(tenantId.val) \/ ContainsDemo(clientId.val)
             \/ ContainsDemo(clientSecret.val)

MockBound == graphClient.built /\ graphClient.authProvider.kind = "MockAuthProvider"

\* C1: while the mock provider is the one bound to the clients, a call of a
\* tool that uses the Graph API sends no HTTP request and, once finished,
\* answers with the authentication-required text.
C1_MockMeansNoOutboundCall ==
    \A i \in Slots :
        (MockBound /\ inv[i].pc \in {"token", "http", "done"}
           /\ inv[i].tool # "check-auth")
        => /\ inv[i].sent = <<>>
           /\ inv[i].pc = "done" => inv[i].result = TextResult(AuthRequiredText)

\* C2: credentials that are all non-empty and none of which contains the
\* lower-case letters "demo" make initializeGraphClient and
\* initializeGraphBetaClient bind a CustomAuthProvider; "DEMO" and "Demo" do
\* not count as demo.
C2_NonDemoBindsReal ==
    (UsesAuthModule /\ pc # "init" /\ exitReason # "setup"
       /\ ~Missing(tenantId) /\ ~Missing(clientId) /\ ~Missing(clientSecret)
       /\ ~AnyDemo)
    => /\ graphClient.built /\ graphBetaClient.built
       /\ graphClient.authProvider.kind = "CustomAuthProvider"
       /\ graphBetaClient.authProvider.kind = "CustomAuthProvider"

C2_Witness ==
    /\ UsesAuthModule /\ graphClient.built /\ graphBetaClient.built
    /\ tenantId = Str(<<"D","e","m","o","1">>)
    /\ clientId = Str(<<"a","p","p","-","D","E","M","O">>)
    /\ clientSecret = Str(<<"s","3","c","r","e","t">>)
    /\ graphClient.authProvider.kind = "CustomAuthProvider"
    /\ graphBetaClient.authProvider.kind = "CustomAuthProvider"

C4_HandlerAlwaysResolvesText ==
    \A i \in Slots :
        (variant = "full" /\ inv[i].pc = "done")
        => /\ inv[i].result.kind = "resolved"
           /\ Len(inv[i].result.content) = 1
           /\ inv[i].result.content[1].type = "text"
           /\ Len(inv[i].result.content[1].text) > 0

C4_Witness ==
    /\ variant = "full"
    /\ \E i \in Slots :
         /\ inv[i].pc = "done" /\ inv[i].tool = "get-emails"
         /\ inv[i].bodies = <<"baditems">>
         /\ inv[i].result = TextResult(<<"Failed to retrieve", " emails", ": ",
                                         "TypeError">>)

\* C5: a call whose token exchange failed finished with a text that begins
\* with the tool's "Failed to ..." message and carries the upstream error,
\* and the process is still running.
C5_TokenFailureBecomesText ==
    \A i \in Slots :
        inv[i].tokenFailed
        => /\ inv[i].pc = "done"
           /\ inv[i].result.kind = "resolved"
           /\ Len(inv[i].result.content) = 1
           /\ LET text == inv[i].result.content[1].text
              IN /\ Len(text) > 1
                 /\ text[1] = (IF inv[i].tool = "search-users" THEN "Failed to search"
                               ELSE IF inv[i].tool = "advanced-user-search"
                               THEN "Failed to perform"
                               ELSE "Failed to retrieve")
                 /\ text[Len(text)] = "AuthError"
           /\ pc = "running" /\ exitCode = -1

C5_Witness ==
    \E i \in Slots :
        /\ inv[i].tokenFailed /\ inv[i].pc = "done"
        /\ inv[i].tool = "search-users"
        /\ graphClient.authProvider.kind = "CustomAuthProvider"
        /\ inv[i].result.content[1].text[1] = "Failed to search"

\* C6: in the strict entry points, when TENANT_ID, CLIENT_ID or CLIENT_SECRET
\* is missing or empty, no client is built, no tool is registered, the
\* transport is never connected, no call is served, and once the start-up
\* code has run the process has exited with code 1.
C6_StrictMissingAborts ==
    (variant \in {"full", "legacy"} /\ AnyMissing)
    => /\ ~graphClient.built /\ ~graphBetaClient.built
       /\ tools = {}
       /\ ~connected
       /\ \A i \in Slots : inv[i].pc = "idle"
       /\ pc \in {"init", "exited"}
       /\ pc = "exited" => exitCode = 1

C6_Witness ==
    /\ variant = "legacy" /\ pc = "exited" /\ exitCode = 1
    /\ ~Missing(env.TENANT_ID) /\ ~Missing(env.CLIENT_ID)
    /\ env.CLIENT_SECRET = Str(<<>>)

\* C7: in the lenient entry point start-up never fails on the credentials;
\* each missing identifier becomes its placeholder, each present one is kept,
\* and when one was missing isUsingRealAuth is falsy and both clients have the
\* mock provider.
C7_LenientSubstitutesPlaceholders ==
    (variant = "lenient" /\ pc # "init")
    => /\ exitReason # "setup"
       /\ graphClient.built /\ graphBetaClient.built
       /\ tools = LenientTools
       /\ tenantId = (IF Missing(env.TENANT_ID) THEN Str(DemoTenantId)
                      ELSE env.TENANT_ID)
       /\ clientId = (IF Missing(env.CLIENT_ID) THEN Str(DemoClientId)
                      ELSE env.CLIENT_ID)
       /\ clientSecret = (IF Missing(env.CLIENT_SECRET) THEN Str(DemoClientSecret)
                          ELSE env.CLIENT_SECRET)
       /\ AnyMissing => /\ Missing(isUsingRealAuth)
                        /\ graphClient.authProvider.kind = "MockAuthProvider"
                        /\ graphBetaClient.authProvider.kind = "MockAuthProvider"

C7_Witness ==
    /\ variant = "lenient" /\ pc = "running"
    /\ ~env.TENANT_ID.def
    /\ env.CLIENT_ID = Str(<<"a","p","p","-","D","E","M","O">>)
    /\ env.CLIENT_SECRET = Str(<<>>)
    /\ tenantId = Str(DemoTenantId)
    /\ clientId = env.CLIENT_ID
    /\ clientSecret = Str(DemoClientSecret)
    /\ MockBound

\* The numeric parameters and their declared range and default
BoundedParams ==
    {<<"get-emails", "count", 1, 50, 10>>,
     <<"get-calendar-events", "days", 1, 30, 7>>,
     <<"search-users", "limit", 1, 20, 5>>,
     <<"advanced-user-search", "limit", 1, 20, 5>>}

QueryTools == {"search-users", "advanced-user-search"}

Rejected(slot) ==
    /\ slot.pc = "rejected"
    /\ slot.result.kind = "invalid"
    /\ slot.tokens = 0
    /\ slot.sent = <<>>

HandlerRan(slot) == slot.pc \in {"token", "http", "done"}

QueryAcceptable(slot) ==
    slot.tool \in QueryTools => (slot.raw.query.def /\ Len(slot.raw.query.val) >= 3)

\* C8: a call whose bounded numeric parameter is below the minimum or above
\* the maximum is rejected before the handler runs and before any token
\* fetch or request; a call that omits it runs the handler with the default
\* (get-emails count 0 and 51 are rejected, an omitted count is 10).
C8_NumericBoundsAndDefaults ==
    \A i \in Slots : \A b \in BoundedParams :
        (inv[i].pc # "idle" /\ inv[i].tool = b[1])
        => LET v == inv[i].raw[b[2]]
           IN /\ (v.def /\ (v.val < b[3] \/ v.val > b[4])) => Rejected(inv[i])
              /\ (~v.def /\ QueryAcceptable(inv[i]))
                   => HandlerRan(inv[i]) /\ inv[i].args[b[2]] = Num(b[5])
              /\ (v.def /\ v.val >= b[3] /\ v.val <= b[4] /\ QueryAcceptable(inv[i]))
                   => HandlerRan(inv[i]) /\ inv[i].args[b[2]] = v

C8_Witness ==
    \E i \in Slots :
        /\ inv[i].tool = "get-emails" /\ ~inv[i].raw.count.def
        /\ inv[i].pc = "http" /\ inv[i].args.count = Num(10)

\* C9: search-users and advanced-user-search reject, before the handler runs
\* and before any request, a call with no query or with a query of fewer
\* than 3 characters, and accept a query of 3 or more characters.
C9_ShortQueryRejected ==
    \A i \in Slots :
        (inv[i].pc # "idle" /\ inv[i].tool \in QueryTools)
        => LET q == inv[i].raw.query
               l == inv[i].raw.limit
           IN /\ (~q.def \/ Len(q.val) < 3) => Rejected(inv[i])
              /\ (q.def /\ Len(q.val) >= 3 /\ (l.def => (l.val >= 1 /\ l.val <= 20)))
                   => HandlerRan(inv[i]) /\ inv[i].args.query = q

C9_Witness ==
    \E i \in Slots :
        /\ inv[i].tool = "search-users" /\ inv[i].raw.query = Str(<<"a","b">>)
        /\ inv[i].raw.limit = Num(20)
        /\ Rejected(inv[i])

\* C10: the standard and the beta client built from one set of credentials
\* have different base URLs (v1.0 and beta) and providers of the same
\* variant: both mock, or both real with the same tenant, client id, secret
\* and scopes.
C10_TwoClientsSameProviderKind ==
    (UsesAuthModule /\ (graphClient.built \/ graphBetaClient.built))
    => /\ graphClient.built /\ graphBetaClient.built
       /\ graphClient.baseUrl = "https://graph.microsoft.com/v1.0"
       /\ graphBetaClient.baseUrl = "https://graph.microsoft.com/beta"
       /\ graphClient.baseUrl # graphBetaClient.baseUrl
       /\ LET p == graphClient.authProvider
              q == graphBetaClient.authProvider
          IN /\ p.kind = q.kind
             /\ p.kind \in {"MockAuthProvider", "CustomAuthProvider"}
             /\ p.kind = "CustomAuthProvider"
                  => /\ p.tenantId = q.tenantId /\ p.tenantId = tenantId.val
                     /\ p.clientId = q.clientId /\ p.clientId = clientId.val
                     /\ p.clientSecret = q.clientSecret
                     /\ p.clientSecret = clientSecret.val
                     /\ p.scopes = q.scopes /\ p.scopes = scopes

C10_Witness ==
    /\ variant = "full" /\ graphClient.built /\ graphBetaClient.built
    /\ graphClient.authProvider.kind = "CustomAuthProvider"
    /\ graphBetaClient.authProvider.scopes = <<<<"A">>, <<"B">>>>
    /\ graphClient.baseUrl # graphBetaClient.baseUrl

\* C11 (as stated): the standard and the beta client are bound to one and the
\* same provider object.
C11_OneSharedProviderInstance ==
    (graphClient.built /\ graphBetaClient.built)
    => graphClient.authProvider.instance = graphBetaClient.authProvider.instance

\* C11 (amended): each initializer constructs a provider of its own, so the
\* two clients are bound to two distinct provider objects of the same class,
\* built from the same credentials; every token request of an invocation
\* reaches the provider object of the client the request goes through.
C11_EachClientOwnProvider ==
    /\ (graphClient.built /\ graphBetaClient.built)
       => LET p == graphClient.authProvider
              q == graphBetaClient.authProvider
          IN /\ p.instance # q.instance
             /\ p.kind = q.kind
             /\ p.tenantId = q.tenantId /\ p.clientId = q.clientId
             /\ p.clientSecret = q.clientSecret /\ p.scopes = q.scopes
    /\ \A i \in DOMAIN inv : \A k \in 1..Len(inv[i].asked) :
         LET r == Requests(inv[i].tool, inv[i].args)[k]
         IN /\ r.client = "standard"
                 => inv[i].asked[k] = graphClient.authProvider.instance
            /\ r.client = "beta"
                 => /\ inv[i].asked[k] = graphBetaClient.authProvider.instance
                    /\ inv[i].asked[k] # graphClient.authProvider.instance

C11_Witness ==
    /\ variant = "full"
    /\ graphClient.authProvider.kind = "CustomAuthProvider"
    /\ \E i \in DOMAIN inv :
         /\ inv[i].tool = "get-teamwork" /\ inv[i].pc = "done"
         /\ Len(inv[i].asked) = 2
         /\ inv[i].asked[2] = graphBetaClient.authProvider.instance
         /\ inv[i].asked[2] # graphClient.authProvider.instance

StandardCalled == variant = "auth" /\ pc \in {"standard", "both"}
BetaCalled == variant = "auth" /\ pc \in {"beta", "both"}
AnyEmptyArgument == Missing(tenantId) \/ Missing(clientId) \/ Missing(clientSecret)
LoggedMessage(m) == \E k \in 1..Len(log) : log[k] = m

\* C12: called with an empty tenantId, clientId or clientSecret, neither
\* initializer constructs a provider or returns a client: each logs the error
\* and throws "Missing required credentials for authentication".
C12_EmptyCredentialThrows ==
    AnyEmptyArgument
    => /\ StandardCalled
            => /\ ~graphClient.built
               /\ graphClient.authProvider = NoProvider
               /\ LoggedMessage(<<"Error initializing MS Graph client: ",
                                  "Missing required credentials for authentication">>)
               /\ ~LoggedMessage(<<"MS Graph client initialized successfully">>)
       /\ BetaCalled
            => /\ ~graphBetaClient.built
               /\ graphBetaClient.authProvider = NoProvider
               /\ LoggedMessage(<<"Error initializing MS Graph Beta client: ",
                                  "Missing required credentials for authentication">>)
               /\ ~LoggedMessage(<<"MS Graph Beta client initialized successfully">>)
       /\ (StandardCalled \/ BetaCalled)
            => caught = "Missing required credentials for authentication"

C12_Witness ==
    /\ variant = "auth" /\ pc = "both"
    /\ Truthy(tenantId) /\ Truthy(clientId)
    /\ clientSecret = Str(<<>>)
    /\ caught = "Missing required credentials for authentication"
    /\ ~graphClient.built /\ ~graphBetaClient.built
    /\ Len(log) = 2

\* What an invocation's handler comes to, from its own fields alone
OwnOutcome(slot) ==
    IF slot.tokenFailed THEN Throws("AuthError")
    ELSE IF slot.httpFailed THEN Throws("GraphError")
    ELSE Render(slot.tool, slot.args, slot.bodies)

Failed(slot) ==
    /\ slot.pc = "done"
    /\ OwnOutcome(slot).threw

Succeeded(slot) ==
    /\ slot.pc = "done"
    /\ ~OwnOutcome(slot).threw

\* C13: with several invocations in flight, a failure of one (token fetch,
\* HTTP request or rendering) does not end the process and does not change
\* the response of another: every finished handler resolves with the text of
\* its own outcome -- the failure text of its own error if it failed, the
\* rendering of its own bodies if it did not.
C13_FailureStaysInItsInvocation ==
    /\ (\E i \in DOMAIN inv : Failed(inv[i])) => (pc = "running" /\ exitCode = -1)
    /\ \A j \in DOMAIN inv :
         /\ Failed(inv[j])
              => inv[j].result =
                   TextResult(<<FailedVerb(inv[j].tool), FailedWhat(inv[j].tool),
                                ": ", OwnOutcome(inv[j]).error>>)
         /\ Succeeded(inv[j])
              => inv[j].result = TextResult(OwnOutcome(inv[j]).text)

C13_Witness ==
    /\ pc = "running" /\ exitCode = -1
    /\ \E i, j \in DOMAIN inv :
         /\ i # j
         /\ inv[i].tool = "get-direct-reports" /\ inv[i].pc = "done"
         /\ inv[i].httpFailed
         /\ inv[i].result = TextResult(<<"Failed to retrieve", " direct reports",
                                         ": ", "GraphError">>)
         /\ inv[j].tool = "get-direct-reports" /\ inv[j].pc = "done"
         /\ inv[j].args = inv[i].args
         /\ inv[j].result = TextResult(<<"Direct Reports:">>)

Awaiting(slot) == slot.pc \in {"token", "http"}

\* C14: an invocation whose token fetch or HTTP call never returns holds up
\* only itself: whether or not invocation 1 ever gets its answer, a new call
\* can be started in every free slot, and every other invocation whose own
\* remote calls return finishes with its response.
C14_HangBlocksOnlyItself ==
    /\ [](\A j \in Others :
            (pc = "running" /\ inv[j].pc = "idle" /\ Awaiting(inv[1]))
            => ENABLED InvokeTool(j, "get-profile"))
    /\ \A j \in Others : Awaiting(inv[j]) ~> (inv[j].pc = "done")

C14_Witness ==
    /\ inv[1].tool = "get-teamwork" /\ inv[1].pc = "token" /\ inv[1].req = 1
    /\ \E j \in DOMAIN inv :
         /\ j # 1
         /\ inv[j].tool = "get-profile" /\ inv[j].pc = "done"
         /\ inv[j].settled = 2
         /\ inv[j].result = TextResult(<<"User Profile Information:">>)

\* The remote calls an invocation started, and those of them still pending
StartedCalls(slot) == slot.tokens + Len(slot.sent)
PendingCalls(slot) == StartedCalls(slot) - slot.settled

\* C15: if every token exchange and every HTTP call eventually returns, an
\* invocation that passed validation eventually has its response; it has it
\* only when every remote call it started has settled (one call is pending
\* while it waits, none when it is done); and a finished response is written
\* once, unchanged.
C15_EveryInvocationResponds ==
    /\ \A i \in Slots : Awaiting(inv[i]) ~> (inv[i].pc = "done")
    /\ [](\A i \in Slots :
            /\ Awaiting(inv[i]) => PendingCalls(inv[i]) = 1
            /\ inv[i].pc = "done"
                 => /\ PendingCalls(inv[i]) = 0
                    /\ inv[i].result.kind = "resolved")
    /\ [][\A i \in Slots :
            inv[i].pc = "done" => (inv'[i] = inv[i] \/ inv'[i] = IdleSlot)]_vars

C15_Witness ==
    \E i \in Slots :
        /\ inv[i].tool = "get-teamwork" /\ inv[i].pc = "done"
        /\ StartedCalls(inv[i]) = 4 /\ inv[i].settled = 4
        /\ Len(inv[i].bodies) = 2
        /\ inv[i].result.kind = "resolved"

\* C16: every HTTP request a handler sends was preceded by a token fetch of
\* its own (n requests sent, n token fetches made, no token kept from one
\* request to the next); when the token fetch fails the request is not sent
\* and the handler answers with its failure text carrying that error.
C16_TokenFetchBeforeEveryRequest ==
    \A i \in Slots :
        LET slot == inv[i]
        IN /\ Len(slot.sent) <= slot.tokens
           /\ Len(slot.asked) = slot.tokens
           /\ slot.pc = "token" => (slot.tokens = slot.req /\ Len(slot.sent) = slot.req - 1)
           /\ slot.pc = "http" => (slot.tokens = slot.req /\ Len(slot.sent) = slot.req)
           /\ (slot.pc = "done" /\ ~slot.tokenFailed) => Len(slot.sent) = slot.tokens
           /\ slot.tokenFailed
                => /\ slot.pc = "done"
                   /\ Len(slot.sent) = slot.tokens - 1
                   /\ Len(slot.bodies) = Len(slot.sent)
                   /\ slot.result = TextResult(<<FailedVerb(slot.tool),
                                                 FailedWhat(slot.tool), ": ", "AuthError">>)

C16_Witness ==
    \E i \in Slots :
        /\ inv[i].tool = "get-teamwork" /\ inv[i].pc = "done"
        /\ inv[i].tokenFailed
        /\ inv[i].tokens = 2 /\ Len(inv[i].sent) = 1
        /\ inv[i].sent[1].path = "/me/joinedTeams"
        /\ inv[i].result = TextResult(<<"Failed to retrieve", " teamwork information",
                                        ": ", "AuthError">>)

\* C17: the provider bound to a client is chosen when the client is built and
\* stays: no step changes a built client or its provider, and a step of an
\* invocation changes neither client nor the credentials they were built from.
C17_ProviderFixedAtConstruction ==
    [][/\ graphClient.built => graphClient' = graphClient
       /\ graphBetaClient.built => graphBetaClient' = graphBetaClient
       /\ inv' # inv
            => /\ graphClient' = graphClient
               /\ graphBetaClient' = graphBetaClient
               /\ <<tenantId, clientId, clientSecret, scopes>>'
                    = <<tenantId, clientId, clientSecret, scopes>>]_vars

C17_Witness ==
    /\ UsesAuthModule
    /\ graphClient.authProvider.kind = "CustomAuthProvider"
    /\ graphBetaClient.authProvider.kind = "CustomAuthProvider"
    /\ \E i \in Slots :
         /\ inv[i].tool = "get-profile" /\ inv[i].pc = "done"
         /\ inv[i].tokenFailed
         /\ inv[i].asked = <<graphClient.authProvider.instance>>

Connecting == pc \in {"connecting", "running"}

TimesRegistered(name) == Cardinality({k \in DOMAIN registry : registry[k] = name})

\* C18: when the transport is being connected, and from then on, the clients
\* are built and every tool of the entry point is registered, each exactly
\* once under its own name; nothing after that -- no connect result, no tool
\* invocation -- adds, removes or replaces a tool or a client.
C18_RegistryFixedBeforeConnect ==
    /\ [](Connecting
          => /\ graphClient.built
             /\ UsesAuthModule => graphBetaClient.built
             /\ tools = (CASE variant = "full" -> FullTools
                           [] variant = "legacy" -> LegacyTools
                           [] OTHER -> LenientTools)
             /\ \A name \in tools : TimesRegistered(name) = 1
             /\ \A k \in DOMAIN registry : registry[k] \in tools)
    /\ [](connected => Connecting)
    /\ [][Connecting
          => /\ tools' = tools
             /\ registry' = registry
             /\ graphClient' = graphClient
             /\ graphBetaClient' = graphBetaClient]_vars

C18_Witness ==
    /\ variant = "full" /\ pc = "running" /\ connected
    /\ Len(registry) = 10
    /\ TimesRegistered("get-teamwork") = 1
    /\ \E i \in Slots : inv[i].tool = "get-teamwork" /\ inv[i].pc = "done"

SameCall(a, b) == a.tool = b.tool /\ a.args = b.args

\* C19: nothing is kept from one invocation for another.  Every invocation
\* that came to its answer without a failure made all the requests of its
\* handler itself, each with its own token fetch, also when another
\* invocation of the same tool with the same arguments is in flight or
\* finished; its text is the rendering of the bodies it received itself, so
\* two such invocations answer the same if and only if their own bodies
\* render the same.
C19_NoResultSharedBetweenInvocations ==
    \A i \in DOMAIN inv :
        (inv[i].pc = "done" /\ ~inv[i].tokenFailed /\ ~inv[i].httpFailed)
        => /\ Len(inv[i].sent) = Len(Requests(inv[i].tool, inv[i].args))
           /\ inv[i].sent = Requests(inv[i].tool, inv[i].args)
           /\ inv[i].tokens = Len(inv[i].sent)
           /\ inv[i].settled = 2 * Len(inv[i].sent)
           /\ Len(inv[i].bodies) = Len(inv[i].sent)
           /\ inv[i].result =
                tryCatch(inv[i].tool, Render(inv[i].tool, inv[i].args, inv[i].bodies))
           /\ \A j \in DOMAIN inv :
                (j # i /\ SameCall(inv[i], inv[j]) /\ inv[j].pc = "done"
                 /\ ~inv[j].tokenFailed /\ ~inv[j].httpFailed)
                => ((inv[i].result = inv[j].result)
                    <=> (Render(inv[i].tool, inv[i].args, inv[i].bodies)
                         = Render(inv[j].tool, inv[j].args, inv[j].bodies)))

C19_Witness ==
    \E i, j \in DOMAIN inv :
        /\ i # j
        /\ inv[i].tool = "get-emails" /\ inv[j].tool = "get-emails"
        /\ inv[i].args = inv[j].args /\ inv[i].args.count = Num(10)
        /\ inv[i].pc = "done" /\ inv[j].pc = "done"
        /\ Len(inv[i].sent) = 1 /\ Len(inv[j].sent) = 1
        /\ inv[i].bodies = <<"full">> /\ inv[j].bodies = <<"novalue">>
        /\ inv[i].result = TextResult(<<"Recent ", "10", " emails:">>)
        /\ inv[j].result = TextResult(<<"No emails found in the inbox.">>)

RealProviderBound ==
    /\ UsesAuthModule
    /\ graphClient.authProvider.kind = "CustomAuthProvider"
    /\ graphBetaClient.authProvider.kind = "CustomAuthProvider"

\* The token fetches of an invocation that have settled
SettledFetches(slot) == IF slot.pc = "token" THEN slot.tokens - 1 ELSE slot.tokens

\* C20: with the real provider every getAccessToken() call makes exactly one
\* token exchange.  A failed exchange is not tried again: the provider logs
\* "Error getting access token: <error>" and throws that same error, which
\* the handler's catch block receives next; a successful exchange hands its
\* token to the request.
C20_OneExchangePerTokenFetch ==
    RealProviderBound
    => \A i \in Slots :
         LET slot == inv[i]
             n == Len(slot.logged)
         IN /\ slot.exchanges = SettledFetches(slot)
            /\ slot.pc = "http" => slot.token = "access-token"
            /\ slot.tokenFailed
                 => /\ n >= 2
                    /\ slot.logged[n - 1] = <<"Error getting access token: ", "AuthError">>
                    /\ slot.logged[n] = CaughtMessage(slot.tool, "AuthError")
                    /\ slot.result = TextResult(FailedText(slot.tool, "AuthError"))

C20_Witness ==
    /\ RealProviderBound
    /\ \E i \in Slots :
         /\ inv[i].tool = "get-teamwork" /\ inv[i].pc = "done"
         /\ inv[i].tokenFailed
         /\ inv[i].tokens = 2 /\ inv[i].exchanges = 2
         /\ inv[i].logged = << <<"Get teamwork information tool called (beta API)">>,
                               <<"Error getting access token: ", "AuthError">>,
                               <<"Error fetching teamwork information: ", "AuthError">> >>

\* What the start-up code comes to for an environment, whatever the log does
StrictEntryPoint == variant \in {"full", "legacy"}

\* C21: a log write that fails changes nothing but the file.  logToFile never
\* throws, so no handler's promise rejects and the process never dies of an
\* uncaught exception; with the file writable or not, the strict entry
\* points exit at set-up exactly when a credential is missing, the provider
\* is the mock one exactly for "demo" credentials, every finished handler
\* answers with the text of its own outcome, and the messages in the file are
\* among the messages passed to logToFile.
C21_LogFailureChangesNothing ==
    /\ exitReason # "uncaught"
    /\ caught # "LogError"
    /\ pc = "exited" => (exitCode = 1 /\ exitReason \in {"setup", "main"})
    /\ pc # "init"
         => /\ (StrictEntryPoint /\ AnyMissing) <=> exitReason = "setup"
            /\ (UsesAuthModule /\ graphClient.built)
                 => (graphClient.authProvider.kind = "MockAuthProvider" <=> AnyDemo)
    /\ Len(logFile) <= Len(log)
    /\ \A i \in Slots :
         LET slot == inv[i]
         IN /\ Len(slot.written) <= Len(slot.logged)
            /\ \A k \in 1..Len(slot.written) :
                 \E m \in 1..Len(slot.logged) : slot.logged[m] = slot.written[k]
            /\ slot.pc = "done"
                 => /\ slot.result.kind = "resolved"
                    /\ slot.tokens > 0
                         => slot.result = tryCatch(slot.tool, OwnOutcome(slot))

C21_Witness ==
    /\ variant = "full" /\ ~logWritable
    /\ Len(logFile) < Len(log)
    /\ graphClient.authProvider.kind = "CustomAuthProvider"
    /\ \E i \in Slots :
         /\ inv[i].tool = "get-profile" /\ inv[i].pc = "done" /\ inv[i].tokenFailed
         /\ Len(inv[i].logged) = 3
         /\ inv[i].written = << <<"Get profile tool called">> >>
         /\ inv[i].result = TextResult(<<"Failed to retrieve", " user profile",
                                         ": ", "AuthError">>)

SetupErrors == {"Missing required environment variables for authentication",
                "Missing required credentials for authentication"}
TransportErrors == {"TransportError", "ConnectError"}

NoInvocation == \A i \in Slots : inv[i] = IdleSlot

\* C22: a throw while a Graph client is constructed, a failure to create the
\* transport and a failure to connect each end the process with exit code 1,
\* before any tool invocation was served and with none after; the process
\* ends for no other reason, so a failed tool call leaves it running.
C22_FatalStartupExitsWithOne ==
    /\ [](/\ exitCode \in {-1, 1}
          /\ pc = "exited" <=> exitCode = 1
          /\ pc = "exited"
               => /\ NoInvocation
                  /\ ~connected
                  /\ \/ exitReason = "setup" /\ caught \in SetupErrors
                        /\ ~(graphClient.built /\ tools # {})
                     \/ exitReason = "main" /\ caught \in TransportErrors
                        /\ graphClient.built
          /\ (StrictEntryPoint /\ AnyMissing /\ pc # "init")
               => (pc = "exited" /\ exitReason = "setup")
          /\ (\E i \in Slots : /\ inv[i].pc = "done" /\ inv[i].tokens > 0
                                /\ OwnOutcome(inv[i]).threw)
               => (pc = "running" /\ exitCode = -1))
    /\ [][/\ pc = "exited" => (pc' = "exited" /\ inv' = inv)
          /\ (pc = "connecting" /\ pc' # "running") => exitCode' = 1
          /\ (pc = "running") => (pc' = "running" /\ exitCode' = -1)]_vars

C22_Witness ==
    /\ pc = "exited" /\ exitCode = 1
    /\ exitReason = "main" /\ caught = "ConnectError"
    /\ graphClient.built /\ tools # {}
    /\ ~connected
    /\ NoInvocation

PlaceholderSubstituted ==
    /\ variant = "lenient" /\ pc # "init"
    /\ ~Truthy(isUsingRealAuth)

\* C23: in the lenient entry point, when a placeholder stands in for a
\* missing credential (isUsingRealAuth is falsy), both clients are bound to
\* the mock provider, no invocation fetches a token, makes a token exchange
\* or sends a request, and get-profile and get-emails answer with the
\* authentication-required text.
C23_PlaceholderNeverGoesOut ==
    PlaceholderSubstituted
    => /\ Missing(env.TENANT_ID) \/ Missing(env.CLIENT_ID) \/ Missing(env.CLIENT_SECRET)
       /\ graphClient.built => graphClient.authProvider.kind = "MockAuthProvider"
       /\ graphBetaClient.built => graphBetaClient.authProvider.kind = "MockAuthProvider"
       /\ \A i \in Slots :
            /\ inv[i].tokens = 0
            /\ inv[i].exchanges = 0
            /\ inv[i].sent = <<>>
            /\ inv[i].asked = <<>>
            /\ (inv[i].pc = "done" /\ inv[i].tool \in {"get-profile", "get-emails"})
                 => inv[i].result = TextResult(AuthRequiredText)

C23_Witness ==
    /\ PlaceholderSubstituted
    /\ env.CLIENT_SECRET = Undefined
    /\ clientSecret = Str(DemoClientSecret)
    /\ tenantId = Str(<<"D","e","m","o","1">>)
    /\ graphBetaClient.authProvider.kind = "MockAuthProvider"
    /\ \E i \in Slots :
         /\ inv[i].tool = "get-emails" /\ inv[i].pc = "done"
         /\ inv[i].args.count = Num(50)
         /\ inv[i].sent = <<>>
         /\ inv[i].result = TextResult(AuthRequiredText)

AllThreeSet ==
    /\ env.TENANT_ID.def /\ Len(env.TENANT_ID.val) > 0
    /\ env.CLIENT_ID.def /\ Len(env.CLIENT_ID.val) > 0
    /\ env.CLIENT_SECRET.def /\ Len(env.CLIENT_SECRET.val) > 0

\* C24: every check-auth call of the lenient entry point answers at once,
\* without a token fetch or a request: "Configured" when TENANT_ID, CLIENT_ID
\* and CLIENT_SECRET are all set and non-empty, "Not Configured" followed by
\* the set-up help otherwise; the environment and isUsingRealAuth do not
\* change once the server runs, so every call gets the same answer.
C24_CheckAuthReportsConfiguration ==
    /\ [](\A i \in Slots :
            inv[i].tool = "check-auth"
            => /\ variant = "lenient"
               /\ inv[i].pc = "done"
               /\ inv[i].tokens = 0 /\ inv[i].exchanges = 0
               /\ inv[i].sent = <<>> /\ inv[i].settled = 0
               /\ AllThreeSet
                    => inv[i].result = TextResult(
                         <<"Authentication Status: ", "Configured",
                           "Authentication is properly configured. All Graph API features should be available.">>)
               /\ ~AllThreeSet
                    => inv[i].result = TextResult(
                         <<"Authentication Status: ", "Not Configured",
                           "To use JBAssist with Microsoft Graph, you need to set up authentication:">>))
    /\ [][pc = "running" => (env' = env /\ isUsingRealAuth' = isUsingRealAuth)]_vars

C24_Witness ==
    /\ variant = "lenient"
    /\ env.TENANT_ID = Str(<<>>)
    /\ env.CLIENT_ID.def /\ env.CLIENT_SECRET.def
    /\ Len(env.CLIENT_ID.val) > 0 /\ Len(env.CLIENT_SECRET.val) > 0
    /\ \E i \in Slots :
         /\ inv[i].tool = "check-auth" /\ inv[i].pc = "done"
         /\ inv[i].result.content[1].text[2] = "Not Configured"

JoinedTeamsRequest == [client |-> "beta", path |-> "/me/joinedTeams", userId |-> <<>>]

PresenceRequest == [client |-> "beta", path |-> "/me/presence", userId |-> <<>>]

\* C25: get-teamwork sends /me/joinedTeams first and /me/presence second, both
\* on the beta client; /me/presence is sent only once /me/joinedTeams has
\* answered with a body, so a failure of the first request leaves the second
\* unsent; when a token fetch or a request of the call fails, the response is
\* the one text "Failed to retrieve teamwork information: <error>" and
\* nothing of what was received.
C25_TeamworkRequestsInOrder ==
    \A i \in Slots :
       inv[i].tool = "get-teamwork" /\ inv[i].pc # "rejected"
       => /\ inv[i].sent \in {<<>>, <<JoinedTeamsRequest>>,
                              <<JoinedTeamsRequest, PresenceRequest>>}
          /\ Len(inv[i].sent) = 2 => Len(inv[i].bodies) >= 1
          /\ inv[i].req = 2 => Len(inv[i].bodies) >= 1
          /\ Len(inv[i].bodies) = 0 /\ inv[i].pc = "done" => Len(inv[i].sent) <= 1
          /\ (inv[i].tokenFailed \/ inv[i].httpFailed)
               => /\ inv[i].pc = "done"
                  /\ \E e \in {"AuthError", "GraphError"} :
                       inv[i].result =
                         TextResult(<<"Failed to retrieve", " teamwork information",
                                      ": ", e>>)
          /\ inv[i].pc = "done" /\ ~(inv[i].tokenFailed \/ inv[i].httpFailed)
               => /\ inv[i].sent = <<JoinedTeamsRequest, PresenceRequest>>
                  /\ Len(inv[i].bodies) = 2
                  /\ inv[i].result.content[1].text[1] = "Microsoft Teams Information:"

C25_Witness ==
    \E i \in Slots :
       /\ inv[i].tool = "get-teamwork" /\ inv[i].pc = "done"
       /\ inv[i].sent = <<JoinedTeamsRequest, PresenceRequest>>
       /\ inv[i].bodies = <<"full">>
       /\ inv[i].httpFailed
       /\ inv[i].result = TextResult(<<"Failed to retrieve", " teamwork information",
                                       ": ", "GraphError">>)

UserIdTools == {"get-direct-reports", "get-manager", "get-presence"}

ResourceOf(tool) ==
    CASE tool = "get-direct-reports" -> "directReports"
      [] tool = "get-manager" -> "manager"
      [] OTHER -> "presence"

ExpectedUserRequest(slot) ==
    IF slot.raw.userId.def /\ Len(slot.raw.userId.val) > 0
    THEN [client |-> "beta",
          path |-> "/users/{userId}/" \o ResourceOf(slot.tool),
          userId |-> slot.raw.userId.val]
    ELSE [client |-> "beta", path |-> "/me/" \o ResourceOf(slot.tool),
          userId |-> <<>>]

\* C26: a call of get-direct-reports, get-manager or get-presence makes one
\* call, on the beta client and never on the standard client: to
\* /users/{userId}/<resource> with the userId it was given when that is a
\* non-empty string, to /me/<resource> when userId is omitted or empty.
C26_OneBetaRequestForUserOrMe ==
    \A i \in Slots :
       inv[i].tool \in UserIdTools /\ HandlerRan(inv[i])
       => /\ inv[i].tokens = 1 /\ inv[i].req = 1
          /\ inv[i].asked = <<graphBetaClient.authProvider.instance>>
          /\ graphBetaClient.authProvider.instance # graphClient.authProvider.instance
          /\ inv[i].sent \in {<<>>, <<ExpectedUserRequest(inv[i])>>}
          /\ inv[i].pc = "http" => inv[i].sent = <<ExpectedUserRequest(inv[i])>>
          /\ inv[i].pc = "done" /\ ~inv[i].tokenFailed
               => inv[i].sent = <<ExpectedUserRequest(inv[i])>>
          /\ inv[i].pc = "token" \/ inv[i].tokenFailed => inv[i].sent = <<>>

C26_Witness ==
    /\ \E i \in Slots :
         /\ inv[i].tool = "get-presence" /\ inv[i].pc = "done"
         /\ inv[i].raw.userId = Str(<<>>)
         /\ inv[i].sent = <<[client |-> "beta", path |-> "/me/presence",
                             userId |-> <<>>]>>

IsBlank(c) == c \in {" ", "\t", "\n"}

SameLetter(c, d) ==
    \/ c = d
    \/ {c, d} \in {{"A", "a"}, {"B", "b"}, {"C", "c"}}

EqualIgnoringCase(x, y) ==
    /\ Len(x) = Len(y)
    /\ \A k \in DOMAIN x : SameLetter(x[k], y[k])

\* The comma-separated pieces of s without their leading and trailing blanks:
\* s[i..j] is one when it lies in a stretch s[a..b] that runs from the start
\* or a comma to the end or a comma, holds no comma, and has only blanks
\* before i and after j, and s[i], s[j] are not blanks.
RequestedSkills(s) ==
    {SubSeq(s, ij[1], ij[2]) : ij \in
       {ij \in (1..(Len(s) + 1)) \X (0..Len(s)) :
          /\ ij[1] <= ij[2] + 1
          /\ ij[1] <= ij[2] => ~IsBlank(s[ij[1]]) /\ ~IsBlank(s[ij[2]])
          /\ \E a \in 1..(Len(s) + 1), b \in 0..Len(s) :
               /\ a <= ij[1] /\ ij[2] <= b
               /\ a = 1 \/ s[a - 1] = ","
               /\ b = Len(s) \/ s[b + 1] = ","
               /\ \A k \in a..b : s[k] # ","
               /\ \A k \in a..(ij[1] - 1) : IsBlank(s[k])
               /\ \A k \in (ij[2] + 1)..b : IsBlank(s[k])}}

PassesSkills(user, s) ==
    /\ user.skills.def
    /\ \E k \in DOMAIN user.skills.val : \E r \in RequestedSkills(s) :
          EqualIgnoringCase(user.skills.val[k], r)

Answered(slot) ==
    /\ slot.tool = "advanced-user-search"
    /\ slot.pc = "done"
    /\ ~slot.tokenFailed /\ ~slot.httpFailed
    /\ Len(slot.bodies) = 1
    /\ ~slot.bodies[1].null

RemoteUsers(slot) ==
    IF slot.bodies[1].value.def THEN slot.bodies[1].value.val ELSE <<>>

NoneFoundText(slot) ==
    CASE slot.tool = "get-emails" -> <<"No emails found in the inbox.">>
      [] slot.tool = "get-calendar-events" ->
           <<"No calendar events found in the next ",
             ToString(slot.args.days.val), " days.">>
      [] slot.tool = "search-users" -> <<"No users found matching '", "'.">>
      [] OTHER -> <<"No direct reports found.">>

SaysFailed(slot) ==
    /\ slot.result.kind = "resolved"
    /\ slot.result.content[1].text[1] \in
         {"Failed to retrieve", "Failed to search", "Failed to perform"}

RemoteCallThrew(slot) == slot.tokenFailed \/ slot.httpFailed

\* Reading .value of a null body throws; rendering an email or an event
\* without its from or organizer throws.
RenderingThrew(slot) ==
    /\ Len(slot.bodies) = 1
    /\ \/ slot.bodies[1].null
       \/ /\ slot.tool \in {"get-emails", "get-calendar-events"}
          /\ \E k \in DOMAIN slot.bodies[1].value.val :
                slot.bodies[1].value.val[k] = "baditem"

\* C28: when the request of get-emails, get-calendar-events, search-users or
\* get-direct-reports succeeds with an object whose value list is missing or
\* empty, the response is the tool's "No ... found" text and not a "Failed
\* to ..." text; a "Failed to ..." text is returned only when the remote call
\* or the rendering threw.
C28_EmptyListIsNotAFailure ==
    \A i \in DOMAIN inv :
       inv[i].tool \in ListTools /\ inv[i].pc = "done"
       => /\ (/\ ~RemoteCallThrew(inv[i])
              /\ ~inv[i].bodies[1].null
              /\ ~inv[i].bodies[1].value.def \/ Len(inv[i].bodies[1].value.val) = 0)
               => /\ inv[i].result = TextResult(NoneFoundText(inv[i]))
                  /\ ~SaysFailed(inv[i])
          /\ SaysFailed(inv[i]) => RemoteCallThrew(inv[i]) \/ RenderingThrew(inv[i])

C28_Witness ==
    \E i \in DOMAIN inv :
       /\ inv[i].tool = "get-calendar-events" /\ inv[i].pc = "done"
       /\ inv[i].bodies = <<NoValueBody>>
       /\ inv[i].result = TextResult(<<"No calendar events found in the next ",
                                       "7", " days.">>)

====
